---- MODULE Spec2Model ----
\* Model of the Bexio MCP server's client (src/mcp_server_bexio/bexio_client.py):
\* the transport wrapper _request, the search methods with their fallback
\* cascade, and the client-side filter _filter_by_criteria.
EXTENDS Integers, Sequences, FiniteSets, TLC

VARIABLES
    pc,             \* position of the search call: idle, await1, await2, await3, await, done
    method,         \* name of the BexioClient search method that was called
    criteria,       \* the criteria argument of the call (list of conditions)
    fallback_limit, \* the fallback_limit keyword argument as passed: <<>> when omitted, else <<n>>
    requests,       \* HTTP requests issued by the call so far, in order
    responses,      \* what the transport got back for each request, in order
    result,         \* how the call ended: returned value or raised exception
    call_args,      \* arguments of a create_contact / update_contact call: contact_id,
                    \* the caller's contact_data mapping as it is now, and as it was given
    f_pc,           \* position of a direct _filter_by_criteria application
    f_items,        \* its items argument
    f_criteria,     \* its criteria argument
    f_result,       \* its return value
    e_pc,           \* position of a direct application of the completion engine
    e_name,         \* the tool name it is applied for
    e_payload,      \* the payload it is applied to
    e_taxes,        \* what the engine's read of the taxes gives
    e_out,          \* what the engine returned or raised
    environ,        \* os.environ of the server process: BEXIO_ACCESS_TOKEN, BEXIO_TIMEOUT
    serving,        \* main() is inside server.run: tool calls are accepted
    bexio_client,   \* server.bexio_client: 0 for None, else the instance
    field_validator,\* server.field_validator: 0 for None, else the instance
    constructed,    \* instances of BexioClient and of BexioFieldValidator built so far
    calls           \* the call_tool coroutines of the process, by call number

engine_vars == <<e_pc, e_name, e_payload, e_taxes, e_out>>

tool_vars == <<environ, serving, bexio_client, field_validator, constructed, calls>>

vars == <<pc, method, criteria, fallback_limit, requests, responses, result,
          call_args, f_pc, f_items, f_criteria, f_result, engine_vars, tool_vars>>

-----------------------------------------------------------------------------
\* Python values. A str is a sequence of one-character strings; a dict is the
\* insertion-ordered sequence of its (key, value) pairs.

None == [t |-> "none", i |-> 0, s |-> <<>>, d |-> <<>>]

PyInt(n) == [t |-> "int", i |-> n, s |-> <<>>, d |-> <<>>]

PyStr(chars) == [t |-> "str", i |-> 0, s |-> chars, d |-> <<>>]

PyDict(pairs) == [t |-> "dict", i |-> 0, s |-> <<>>, d |-> pairs]

Pair(key, val) == [k |-> key, v |-> val]

Digits == <<"0", "1", "2", "3", "4", "5", "6", "7", "8", "9">>

UpperChars == <<"A", "B", "C", "D", "E", "F", "G", "H", "I", "J", "K", "L", "M",
                "N", "O", "P", "Q", "R", "S", "T", "U", "V", "W", "X", "Y", "Z">>

LowerChars == <<"a", "b", "c", "d", "e", "f", "g", "h", "i", "j", "k", "l", "m",
                "n", "o", "p", "q", "r", "s", "t", "u", "v", "w", "x", "y", "z">>

\* str.lower() on one character
LowerChar(c) ==
    IF \E j \in 1..Len(UpperChars) : UpperChars[j] = c
    THEN LowerChars[CHOOSE j \in 1..Len(UpperChars) : UpperChars[j] = c]
    ELSE c

\* str.lower()
Lower(chars) == [j \in 1..Len(chars) |-> LowerChar(chars[j])]

\* the `in` operator on two str values: needle in hay
Contains(hay, needle) ==
    \E k \in 0..(Len(hay) - Len(needle)) :
        SubSeq(hay, k + 1, k + Len(needle)) = needle

RECURSIVE NatToStr(_)
NatToStr(n) ==
    IF n < 10 THEN <<Digits[n + 1]>>
    ELSE NatToStr(n \div 10) \o <<Digits[(n % 10) + 1]>>

\* str() of an int
IntToStr(n) == IF n < 0 THEN <<"-">> \o NatToStr(0 - n) ELSE NatToStr(n)

\* repr() of a value; a dict prints as {'k': v, ...} in insertion order
RECURSIVE Repr(_)
Repr(v) ==
    CASE v.t = "none" -> <<"N", "o", "n", "e">>
      [] v.t = "int" -> IntToStr(v.i)
      [] v.t = "str" -> <<"'">> \o v.s \o <<"'">>
      [] OTHER ->
           LET RECURSIVE Join(_)
               Join(j) ==
                   IF j > Len(v.d) THEN <<>>
                   ELSE (IF j > 1 THEN <<",", " ">> ELSE <<>>)
                        \o <<"'">> \o v.d[j].k \o <<"'", ":", " ">>
                        \o Repr(v.d[j].v) \o Join(j + 1)
           IN <<"{">> \o Join(1) \o <<"}">>

\* str() of a value
Str(v) == IF v.t = "str" THEN v.s ELSE Repr(v)

\* truthiness of a value, as `not x` and `x or y` see it
Truthy(v) ==
    CASE v.t = "none" -> FALSE
      [] v.t \in {"int", "bool", "float"} -> v.i # 0
      [] v.t = "str" -> v.s # <<>>
      [] OTHER -> v.d # <<>>

\* dict.get(key): the value stored under key, None when the key is absent
DictGet(dv, key) ==
    IF \E j \in 1..Len(dv.d) : dv.d[j].k = key
    THEN dv.d[CHOOSE j \in 1..Len(dv.d) : dv.d[j].k = key].v
    ELSE None

\* str.split('.')
RECURSIVE SplitDot(_)
SplitDot(chars) ==
    IF \E j \in 1..Len(chars) : chars[j] = "."
    THEN LET j == CHOOSE a \in 1..Len(chars) :
                      /\ chars[a] = "."
                      /\ \A b \in 1..(a - 1) : chars[b] # "."
         IN <<SubSeq(chars, 1, j - 1)>> \o SplitDot(SubSeq(chars, j + 1, Len(chars)))
    ELSE <<chars>>

-----------------------------------------------------------------------------
\* BexioClient._filter_by_criteria and its inner function matches.
\* A condition is the dict {"field": .., "value": .., "criteria": ..}; cond.get
\* returns None for an absent key, so an absent key is the value None here.

Cond(f, v, c) == [field |-> f, value |-> v, criteria |-> c]

\* op = (cond.get("criteria") or "=").lower()
EffectiveOp(cond) ==
    Lower(IF Truthy(cond.criteria) THEN cond.criteria.s ELSE <<"=">>)

\* slip: a value that is not a dict is kept as the field's value
RECURSIVE ResolveParts_keeps_value(_, _)
ResolveParts_keeps_value(actual, parts) ==
    IF parts = <<>> THEN actual
    ELSE IF actual.t = "dict"
         THEN ResolveParts_keeps_value(DictGet(actual, Head(parts)), Tail(parts))
         ELSE actual

\* the loop over field.split('.'): descend while the current value is a dict,
\* otherwise the value becomes None and the loop breaks
RECURSIVE ResolveParts(_, _)
ResolveParts(actual, parts) ==
    IF parts = <<>> THEN actual
    ELSE IF actual.t = "dict"
         THEN ResolveParts(DictGet(actual, Head(parts)), Tail(parts))
         ELSE None

ResolveField(item, field) == ResolveParts(item, SplitDot(field.s))

\* slip: `=` compared without the str() casts
EqHolds_typed(actual, value) == actual = value

\* op == "=": the condition holds unless str(actual) != str(value)
EqHolds(actual, value) == Str(actual) = Str(value)

\* slip: `like` without the .lower() calls
LikeHolds_case_sensitive(actual, value) ==
    /\ value.t # "none"
    /\ Contains(Str(actual), Str(value))

\* op == "like": value None fails, else case-folded substring test
LikeHolds(actual, value) ==
    /\ value.t # "none"
    /\ Contains(Lower(Str(actual)), Lower(Str(value)))

\* slip: the final else branch does not return False
CondPasses_unknown_op_kept(item, cond) ==
    /\ Truthy(cond.field)
    /\ LET actual == ResolveField(item, cond.field)
           op == EffectiveOp(cond)
       IN CASE op = <<"=">> -> EqHolds(actual, cond.value)
            [] op = <<"l", "i", "k", "e">> -> LikeHolds(actual, cond.value)
            [] OTHER -> TRUE

\* one iteration of the loop in matches: FALSE is `return False`; a falsy
\* field returns False before the field is resolved
CondPasses(item, cond) ==
    /\ Truthy(cond.field)
    /\ LET actual == ResolveField(item, cond.field)
           op == EffectiveOp(cond)
       IN CASE op = <<"=">> -> EqHolds(actual, cond.value)
            [] op = <<"l", "i", "k", "e">> -> LikeHolds(actual, cond.value)
            [] OTHER -> FALSE

\* for cond in criteria: ... return False on the first failing condition;
\* return True after the loop
RECURSIVE matches_from(_, _, _)
matches_from(item, conds, j) ==
    IF j > Len(conds) THEN TRUE
    ELSE IF ~CondPasses(item, conds[j]) THEN FALSE
         ELSE matches_from(item, conds, j + 1)

\* slip: one passing condition is enough
matches_any(item, conds) ==
    \E j \in 1..Len(conds) : CondPasses(item, conds[j])

\* def matches(item), with the enclosing criteria as second argument
matches(item, conds) == matches_from(item, conds, 1)

\* slip: the kept records come out in reverse order
_filter_by_criteria_reversed(items, conds) ==
    LET kept == SelectSeq(items, LAMBDA it : matches(it, conds))
    IN [j \in 1..Len(kept) |-> kept[Len(kept) + 1 - j]]

\* return [it for it in items if matches(it)]
_filter_by_criteria(items, conds) ==
    SelectSeq(items, LAMBDA it : matches(it, conds))

-----------------------------------------------------------------------------
\* BexioClient._request: one HTTP exchange. What comes back is the remote
\* side's choice: a 2xx response with a JSON body, an error status, or no
\* usable response at all (connection failure, timeout, a 2xx body that is
\* not JSON).

OkResponse(data) == [kind |-> "ok", status |-> 200, data |-> data]

HttpError(code) == [kind |-> "http_error", status |-> code, data |-> <<>>]

Fault(kind) == [kind |-> kind, status |-> 0, data |-> <<>>]

FaultKinds == {"network", "timeout", "bad_json"}

NoExc == [type |-> "none", text |-> "", status |-> 0, cause |-> ""]

\* raise ValueError(f"Bexio API error - {error_detail}") with error_detail
\* starting "HTTP <status code>"
ApiError(code) ==
    [type |-> "ValueError", text |-> "Bexio API error - HTTP", status |-> code,
     cause |-> "http_error"]

\* raise ValueError(f"Request failed: {str(e)}")
RequestFailed(kind) ==
    [type |-> "ValueError", text |-> "Request failed", status |-> 0, cause |-> kind]

_request(outcome) ==
    CASE outcome.kind = "ok" ->
           [raised |-> FALSE, value |-> outcome.data, exc |-> NoExc]
      [] outcome.kind = "http_error" ->
           [raised |-> TRUE, value |-> <<>>, exc |-> ApiError(outcome.status)]
      [] OTHER ->
           [raised |-> TRUE, value |-> <<>>, exc |-> RequestFailed(outcome.kind)]

-----------------------------------------------------------------------------
\* The search methods of BexioClient.

ThreeTierMethods == {"search_invoices", "search_quotes", "search_timesheets"}

WrappedSingleMethods == {"search_orders", "search_projects", "search_items"}

BareSingleMethods ==
    {"search_contacts", "search_accounts", "search_calendar_years",
     "search_client_services", "search_business_activities"}

SingleMethods == WrappedSingleMethods \cup BareSingleMethods

\* the endpoint each search method posts to
SearchEndpoint(m) ==
    CASE m = "search_contacts" -> "/2.0/contact/search"
      [] m = "search_invoices" -> "/2.0/kb_invoice/search"
      [] m = "search_quotes" -> "/2.0/kb_offer/search"
      [] m = "search_orders" -> "/2.0/kb_order/search"
      [] m = "search_projects" -> "/2.0/pr_project/search"
      [] m = "search_items" -> "/2.0/article/search"
      [] m = "search_accounts" -> "/2.0/accounts/search"
      [] m = "search_calendar_years" -> "/3.0/accounting/calendar_years/search"
      [] m = "search_timesheets" -> "/2.0/timesheet/search"
      [] m = "search_client_services" -> "/2.0/client_service/search"
      [] OTHER -> "/2.0/business_activity/search"

\* the endpoint of the list method a three-tier search falls back to
ListEndpoint(m) ==
    CASE m = "search_invoices" -> "/2.0/kb_invoice"
      [] m = "search_quotes" -> "/2.0/kb_offer"
      [] OTHER -> "/2.0/timesheet"

BareBody(conds) == [shape |-> "bare", criteria |-> conds]

WrappedBody(conds) == [shape |-> "wrapped", criteria |-> conds]

NoBody == [shape |-> "none", criteria |-> <<>>]

\* self.post(endpoint, data)
Post(endpoint, body) ==
    [verb |-> "POST", endpoint |-> endpoint, json |-> body, params |-> <<>>]

\* the default of the keyword argument: fallback_limit: int = 200
DefaultFallbackLimit == 200

\* the value fallback_limit has inside the method
EffectiveLimit(arg) == IF arg = <<>> THEN DefaultFallbackLimit ELSE arg[1]

\* list_invoices(limit=fallback_limit): a GET whose params hold only limit
ListRequest(m, arg) ==
    [verb |-> "GET", endpoint |-> ListEndpoint(m), json |-> NoBody,
     params |-> <<[k |-> "limit", v |-> EffectiveLimit(arg)]>>]

\* slip: the first attempt already sends the wrapped shape
Tier1Body_wrapped(conds) == WrappedBody(conds)

\* the body of the first attempt of a three-tier search: criteria itself
Tier1Body(conds) == BareBody(conds)

\* the body of the second attempt: {"criteria": criteria}
Tier2Body(conds) == WrappedBody(conds)

\* slip: every single-attempt search wraps its criteria
SingleSearchBody_always_wrapped(m, conds) == WrappedBody(conds)

\* the body of a search method that makes a single attempt: search_orders,
\* search_projects and search_items post {"criteria": criteria}, the others
\* post criteria itself
SingleSearchBody(m, conds) ==
    IF m \in WrappedSingleMethods THEN WrappedBody(conds) ELSE BareBody(conds)

\* slip: an empty result is taken for a failed attempt
AttemptReturns_nonempty(r) == ~r.raised /\ r.value # <<>>

\* `return await self.post(...)`: the attempt returns when _request returned
AttemptReturns(r) == ~r.raised

\* `except ValueError`
ExceptValueError(exc) == exc.type = "ValueError"

\* slip: the first attempt's exception is re-raised
PropagatedError_first(errs) == errs[1]

\* the exception that leaves the method when the list fetch raises inside the
\* two handlers: errs are the exceptions of tier 1, tier 2 and the list fetch
PropagatedError(errs) == errs[Len(errs)]

Pending == [status |-> "pending", value |-> <<>>, exc |-> NoExc]

\* no update_contact call in progress
NoArgs == [contact_id |-> 0, contact_data |-> PyDict(<<>>), given |-> PyDict(<<>>)]

Returned(value) == [status |-> "returned", value |-> value, exc |-> NoExc]

Raised(exc) == [status |-> "raised", value |-> <<>>, exc |-> exc]

-----------------------------------------------------------------------------
\* Inputs: records, conditions and responses the calls are run on.

MaxBatch == 2

MaxConds == 2


KeyCity == <<"c", "i", "t", "y">>

KeyZip == <<"z", "i", "p">>

KeyAddress == <<"a", "d", "d", "r", "e", "s", "s">>

StrZurich == PyStr(<<"Z", "u", "r", "i", "c", "h">>)

StrZurichshire == PyStr(<<"Z", "u", "r", "i", "c", "h", "s", "h", "i", "r", "e">>)

StrZURICH == PyStr(<<"Z", "U", "R", "I", "C", "H">>)

StrBern == PyStr(<<"B", "e", "r", "n">>)

StrFive == PyStr(<<"5">>)

StrNoneText == PyStr(<<"N", "o", "n", "e">>)

StrOn == PyStr(<<"o", "n">>)

FieldCity == PyStr(KeyCity)

FieldZip == PyStr(KeyZip)

FieldAddressCity == PyStr(KeyAddress \o <<".">> \o KeyCity)

OpEq == PyStr(<<"=">>)

OpLike == PyStr(<<"l", "i", "k", "e">>)

OpLIKE == PyStr(<<"L", "I", "K", "E">>)

OpGt == PyStr(<<">">>)

OpNe == PyStr(<<"!", "=">>)

OpIsNull == PyStr(<<"i", "s", "_", "n", "u", "l", "l">>)

RecZurichshire == PyDict(<<Pair(KeyCity, StrZurichshire), Pair(KeyZip, PyInt(5))>>)

RecZURICH == PyDict(<<Pair(KeyCity, StrZURICH), Pair(KeyZip, StrFive)>>)

RecBern == PyDict(<<Pair(KeyCity, StrBern), Pair(KeyZip, PyInt(8005))>>)

RecEmpty == PyDict(<<>>)

RecCityNone == PyDict(<<Pair(KeyCity, None)>>)

RecNested ==
    PyDict(<<Pair(KeyCity, PyInt(5)),
             Pair(KeyAddress, PyDict(<<Pair(KeyCity, StrZurich)>>))>>)

RecAddressStr == PyDict(<<Pair(KeyAddress, StrBern)>>)

SeqsUpTo(S, n) == UNION {[1..k -> S] : k \in 0..n}

\* what the remote side may hold and return
CascadeRecords == {RecZurichshire, RecZURICH, RecBern}

Batches == SeqsUpTo(CascadeRecords, MaxBatch)

CascadeCriteria ==
    {<<>>,
     <<Cond(FieldCity, StrZurich, OpLike)>>,
     <<Cond(FieldCity, StrZurich, OpLike), Cond(FieldZip, StrFive, OpEq)>>,
     <<Cond(FieldZip, PyInt(5), OpGt)>>}

\* the keyword argument as the caller passes it: omitted, or a number
FallbackLimitArgs == {<<>>, <<1>>}

HttpErrorCodes == {422, 500}

Outcomes ==
    {OkResponse(b) : b \in Batches}
    \cup {HttpError(c) : c \in HttpErrorCodes}
    \cup {Fault(k) : k \in FaultKinds}

\* inputs of the direct applications of the filter
FilterRecords ==
    {RecZurichshire, RecZURICH, RecBern, RecEmpty, RecCityNone, RecNested,
     RecAddressStr}

FilterConds ==
    {Cond(f, v, c) : f \in {FieldCity, FieldZip, FieldAddressCity},
                     v \in {StrZurich, StrFive, PyInt(5), None},
                     c \in {OpEq, OpLike}}
    \cup {Cond(FieldCity, StrZurich, c) :
              c \in {OpLIKE, OpGt, OpNe, OpIsNull, None, PyStr(<<>>)}}
    \cup {Cond(f, None, OpEq) : f \in {None, PyStr(<<>>)}}
    \cup {Cond(FieldCity, StrNoneText, OpEq), Cond(FieldCity, StrOn, OpLike)}

FilterCriteria == SeqsUpTo(FilterConds, MaxConds)

-----------------------------------------------------------------------------
\* State machine of one search call at a time.

\* the completion engine is not being applied
EngineOff ==
    /\ e_pc = "off"
    /\ e_name = "none"
    /\ e_payload = None
    /\ e_taxes = <<>>
    /\ e_out = Pending

\* no server process: the module globals as server.py declares them
ToolOff ==
    /\ environ = <<>>
    /\ serving = FALSE
    /\ bexio_client = 0
    /\ field_validator = 0
    /\ constructed = [client |-> 0, validator |-> 0]
    /\ calls = <<>>

Init ==
    /\ pc = "idle"
    /\ method = "none"
    /\ criteria = <<>>
    /\ fallback_limit = <<>>
    /\ requests = <<>>
    /\ responses = <<>>
    /\ result = Pending
    /\ call_args = NoArgs
    /\ f_pc = "off"
    /\ f_items = <<>>
    /\ f_criteria = <<>>
    /\ f_result = <<>>
    /\ EngineOff
    /\ ToolOff

FilterUnchanged == UNCHANGED <<f_pc, f_items, f_criteria, f_result>>

\* a method of BexioClient touches neither the engine nor the server globals
ClientFrame == UNCHANGED <<engine_vars, tool_vars>>

\* what a search method leaves alone
SearchFrame == FilterUnchanged /\ ClientFrame /\ UNCHANGED call_args

\* search_invoices / search_quotes / search_timesheets is called and issues
\* its first request
ThreeTierCall(m, conds, limit) ==
    /\ pc = "idle"
    /\ method' = m
    /\ criteria' = conds
    /\ fallback_limit' = limit
    /\ requests' = <<Post(SearchEndpoint(m), Tier1Body(conds))>>
    /\ responses' = <<>>
    /\ result' = Pending
    /\ pc' = "await1"
    /\ SearchFrame

\* the first request completes: return its result, or on ValueError issue the
\* second request
Tier1Completes(outcome) ==
    /\ pc = "await1"
    /\ responses' = Append(responses, outcome)
    /\ LET r == _request(outcome)
       IN IF AttemptReturns(r)
          THEN /\ result' = Returned(r.value)
               /\ pc' = "done"
               /\ UNCHANGED requests
          ELSE IF r.raised /\ ~ExceptValueError(r.exc)
          THEN /\ result' = Raised(r.exc)
               /\ pc' = "done"
               /\ UNCHANGED requests
          ELSE /\ requests' =
                      Append(requests, Post(SearchEndpoint(method), Tier2Body(criteria)))
               /\ pc' = "await2"
               /\ UNCHANGED result
    /\ UNCHANGED <<method, criteria, fallback_limit>>
    /\ SearchFrame

\* the second request completes: return its result, or on ValueError issue the
\* list request
Tier2Completes(outcome) ==
    /\ pc = "await2"
    /\ responses' = Append(responses, outcome)
    /\ LET r == _request(outcome)
       IN IF AttemptReturns(r)
          THEN /\ result' = Returned(r.value)
               /\ pc' = "done"
               /\ UNCHANGED requests
          ELSE IF r.raised /\ ~ExceptValueError(r.exc)
          THEN /\ result' = Raised(r.exc)
               /\ pc' = "done"
               /\ UNCHANGED requests
          ELSE /\ requests' = Append(requests, ListRequest(method, fallback_limit))
               /\ pc' = "await3"
               /\ UNCHANGED result
    /\ UNCHANGED <<method, criteria, fallback_limit>>
    /\ SearchFrame

\* the list request completes: return the filtered batch, or let its error
\* leave the method
Tier3Completes(outcome) ==
    /\ pc = "await3"
    /\ responses' = Append(responses, outcome)
    /\ LET r == _request(outcome)
       IN IF r.raised
          THEN result' =
                   Raised(PropagatedError(
                       <<_request(responses[1]).exc, _request(responses[2]).exc, r.exc>>))
          ELSE result' = Returned(_filter_by_criteria(r.value, criteria))
    /\ pc' = "done"
    /\ UNCHANGED <<method, criteria, fallback_limit, requests>>
    /\ SearchFrame

\* a search method without fallback is called and issues its only request
SingleCall(m, conds) ==
    /\ pc = "idle"
    /\ method' = m
    /\ criteria' = conds
    /\ fallback_limit' = <<>>
    /\ requests' = <<Post(SearchEndpoint(m), SingleSearchBody(m, conds))>>
    /\ responses' = <<>>
    /\ result' = Pending
    /\ pc' = "await"
    /\ SearchFrame

\* its request completes: the method returns or raises what _request did
SingleCompletes(outcome) ==
    /\ pc = "await"
    /\ responses' = Append(responses, outcome)
    /\ LET r == _request(outcome)
       IN result' = IF r.raised THEN Raised(r.exc) ELSE Returned(r.value)
    /\ pc' = "done"
    /\ UNCHANGED <<method, criteria, fallback_limit, requests>>
    /\ SearchFrame

\* the caller has the outcome; the client is ready for the next call
CallEnds ==
    /\ pc = "done"
    /\ pc' = "idle"
    /\ method' = "none"
    /\ criteria' = <<>>
    /\ fallback_limit' = <<>>
    /\ requests' = <<>>
    /\ responses' = <<>>
    /\ result' = Pending
    /\ SearchFrame

Next ==
    \/ \E m \in ThreeTierMethods, conds \in CascadeCriteria, limit \in FallbackLimitArgs :
           ThreeTierCall(m, conds, limit)
    \/ \E outcome \in Outcomes : Tier1Completes(outcome)
    \/ \E outcome \in Outcomes : Tier2Completes(outcome)
    \/ \E outcome \in Outcomes : Tier3Completes(outcome)
    \/ \E m \in SingleMethods, conds \in CascadeCriteria : SingleCall(m, conds)
    \/ \E outcome \in Outcomes : SingleCompletes(outcome)
    \/ CallEnds

Spec == Init /\ [][Next]_vars

-----------------------------------------------------------------------------
\* Direct applications of _filter_by_criteria to one record and a list of
\* conditions.

FilterInit ==
    /\ pc = "idle"
    /\ method = "none"
    /\ criteria = <<>>
    /\ fallback_limit = <<>>
    /\ requests = <<>>
    /\ responses = <<>>
    /\ result = Pending
    /\ call_args = NoArgs
    /\ f_pc = "ready"
    /\ f_items \in {<<rec>> : rec \in FilterRecords}
    /\ f_criteria \in FilterCriteria
    /\ f_result = <<>>
    /\ EngineOff
    /\ ToolOff

ApplyFilter ==
    /\ f_pc = "ready"
    /\ f_result' = _filter_by_criteria(f_items, f_criteria)
    /\ f_pc' = "done"
    /\ UNCHANGED <<pc, method, criteria, fallback_limit, requests, responses, result,
                   call_args, f_items, f_criteria, engine_vars, tool_vars>>

FilterNext == ApplyFilter

SpecFilter == FilterInit /\ [][FilterNext]_vars

-----------------------------------------------------------------------------
\* Properties of the three-tier search (Spec).

Failed(outcome) == outcome.kind # "ok"

\* the /search endpoint and the list endpoint of each three-tier kind
KindSearchPath ==
    [search_invoices |-> "/2.0/kb_invoice/search",
     search_quotes |-> "/2.0/kb_offer/search",
     search_timesheets |-> "/2.0/timesheet/search"]

KindListPath ==
    [search_invoices |-> "/2.0/kb_invoice",
     search_quotes |-> "/2.0/kb_offer",
     search_timesheets |-> "/2.0/timesheet"]

\* C1: a search_invoices / search_quotes / search_timesheets call issues its
\* requests in the fixed order (1) POST /search with the bare conditions list,
\* (2) POST /search with {"criteria": conditions}, (3) GET of the list endpoint
\* with limit=fallback_limit; a request is issued only if every earlier request
\* of the call failed, none is issued after a successful one, and there are at
\* most three.
C1_CascadeOrder ==
    method \in ThreeTierMethods =>
        /\ Len(requests) \in 1..3
        /\ Len(responses) \in {Len(requests) - 1, Len(requests)}
        /\ requests[1] =
               [verb |-> "POST", endpoint |-> KindSearchPath[method],
                json |-> [shape |-> "bare", criteria |-> criteria], params |-> <<>>]
        /\ Len(requests) >= 2 =>
               requests[2] =
                   [verb |-> "POST", endpoint |-> KindSearchPath[method],
                    json |-> [shape |-> "wrapped", criteria |-> criteria],
                    params |-> <<>>]
        /\ Len(requests) >= 3 =>
               requests[3] =
                   [verb |-> "GET", endpoint |-> KindListPath[method],
                    json |-> [shape |-> "none", criteria |-> <<>>],
                    params |-> <<[k |-> "limit",
                                  v |-> IF fallback_limit = <<>> THEN 200
                                        ELSE fallback_limit[1]]>>]
        /\ \A j \in 2..Len(requests) : \A k \in 1..(j - 1) : Failed(responses[k])
        /\ \A k \in 1..Len(responses) : ~Failed(responses[k]) => Len(requests) = k

\* C1 witness: a search_invoices call that went through all three requests
\* and returned
C1_Witness ==
    /\ pc = "done"
    /\ method = "search_invoices"
    /\ Len(requests) = 3
    /\ result.status = "returned"

\* C2: the first tier that returns successfully is authoritative: the call
\* returns exactly that tier's result, an empty successful result of tier 1 or
\* tier 2 triggers no later tier, and the returned records all come from the
\* one successful response.
C2_FirstSuccessAuthoritative ==
    (pc = "done" /\ method \in ThreeTierMethods) =>
        /\ \A k \in 1..Len(responses) :
               (k <= 2 /\ ~Failed(responses[k])) =>
                   /\ Len(requests) = k
                   /\ result = Returned(responses[k].data)
        /\ result.status = "returned" =>
               /\ Cardinality({k \in 1..Len(responses) : ~Failed(responses[k])}) = 1
               /\ ~Failed(responses[Len(responses)])
               /\ \A j \in 1..Len(result.value) :
                      \E i \in 1..Len(responses[Len(responses)].data) :
                          result.value[j] = responses[Len(responses)].data[i]

\* C2 witness: tier 1 failed, tier 2 succeeded with zero records, and the call
\* returned the empty list after two requests
C2_Witness ==
    /\ pc = "done"
    /\ method \in ThreeTierMethods
    /\ Len(responses) = 2
    /\ Failed(responses[1])
    /\ responses[2] = OkResponse(<<>>)
    /\ result = Returned(<<>>)

\* positions of the records of a batch that the client-side filter matches
MatchingPositions(batch, conds) == {j \in 1..Len(batch) : matches(batch[j], conds)}

\* the k-th smallest element of a set of positions
NthPosition(P, k) == CHOOSE j \in P : Cardinality({i \in P : i <= j}) = k

\* C3: when tier 1 and tier 2 both fail and the list fetch succeeds, the call
\* has made one list fetch with limit=fallback_limit (200 by default) and
\* returns exactly the records of that batch the client-side filter matches,
\* in list order, none added, altered or duplicated; an empty matching subset
\* is a successful result.
C3_FallbackFilter ==
    (/\ pc = "done"
     /\ method \in ThreeTierMethods
     /\ Len(responses) >= 2
     /\ Failed(responses[1])
     /\ Failed(responses[2])) =>
        /\ Len(responses) = 3
        /\ Cardinality({j \in 1..Len(requests) : requests[j].verb = "GET"}) = 1
        /\ requests[3].params =
               <<[k |-> "limit",
                  v |-> IF fallback_limit = <<>> THEN 200 ELSE fallback_limit[1]]>>
        /\ ~Failed(responses[3]) =>
               LET batch == responses[3].data
                   P == MatchingPositions(batch, criteria)
               IN /\ result.status = "returned"
                  /\ Len(result.value) = Cardinality(P)
                  /\ \A k \in 1..Cardinality(P) :
                         result.value[k] = batch[NthPosition(P, k)]

\* C3 witness: the fallback returned two different matching records of a
\* batch under a non-empty condition list, with the default limit
C3_Witness ==
    /\ pc = "done"
    /\ method \in ThreeTierMethods
    /\ Len(responses) = 3
    /\ fallback_limit = <<>>
    /\ criteria # <<>>
    /\ result.status = "returned"
    /\ Len(result.value) = 2
    /\ result.value[1] # result.value[2]

\* C4: a three-tier search raises only if all three tiers failed, and the
\* error it raises is the error of the list fetch.
C4_LastTierError ==
    (pc = "done" /\ method \in ThreeTierMethods /\ result.status = "raised") =>
        /\ Len(responses) = 3
        /\ \A k \in 1..3 : Failed(responses[k])
        /\ result.exc.cause = responses[3].kind
        /\ result.exc.status = responses[3].status

\* C4 witness: all three tiers failed, tier 1 with HTTP 422 and the list fetch
\* with a timeout, and the call raised
C4_Witness ==
    /\ pc = "done"
    /\ method \in ThreeTierMethods
    /\ result.status = "raised"
    /\ Len(responses) = 3
    /\ responses[1] = HttpError(422)
    /\ responses[3] = Fault("timeout")

\* the /search endpoint of each kind searched without fallback
SinglePath ==
    [search_contacts |-> "/2.0/contact/search",
     search_orders |-> "/2.0/kb_order/search",
     search_projects |-> "/2.0/pr_project/search",
     search_items |-> "/2.0/article/search",
     search_accounts |-> "/2.0/accounts/search",
     search_calendar_years |-> "/3.0/accounting/calendar_years/search",
     search_client_services |-> "/2.0/client_service/search",
     search_business_activities |-> "/2.0/business_activity/search"]

\* C5 as stated: every search of a kind other than invoice, quote and
\* timesheet issues exactly one request, a POST to the kind's /search endpoint
\* with body {"criteria": conditions}, and has no fallback tier.
C5_Original ==
    method \in DOMAIN SinglePath =>
        requests =
            <<[verb |-> "POST", endpoint |-> SinglePath[method],
               json |-> [shape |-> "wrapped", criteria |-> criteria],
               params |-> <<>>]>>

\* C5 amended: every search of a kind other than invoice, quote and timesheet
\* issues exactly one request, a POST to the kind's /search endpoint, and has
\* no fallback tier (a failure of that request is what the call raises); the
\* body is {"criteria": conditions} for orders, projects and items, and the
\* bare conditions list for contacts, accounts, calendar years, client
\* services and business activities.
C5_SingleRequest ==
    method \in DOMAIN SinglePath =>
        /\ requests =
               <<[verb |-> "POST", endpoint |-> SinglePath[method],
                  json |-> [shape |-> IF method \in {"search_orders", "search_projects",
                                                     "search_items"}
                                      THEN "wrapped" ELSE "bare",
                            criteria |-> criteria],
                  params |-> <<>>]>>
        /\ pc = "done" =>
               /\ Len(responses) = 1
               /\ Failed(responses[1]) =>
                      /\ result.status = "raised"
                      /\ result.exc.cause = responses[1].kind
                      /\ result.exc.status = responses[1].status
               /\ ~Failed(responses[1]) => result = Returned(responses[1].data)

\* C5 witness: a search_contacts call whose only request failed and that
\* raised after that one request
C5_Witness ==
    /\ pc = "done"
    /\ method = "search_contacts"
    /\ Len(requests) = 1
    /\ requests[1].json.shape = "bare"
    /\ Failed(responses[1])
    /\ result.status = "raised"

\* C6 as stated: tier 2 is attempted exactly when tier 1 failed with a
\* remote-reported validation error; after a network or transport fault of
\* tier 1 (connection failure, timeout, unparsable response) the wrapped
\* retry is not sent.
C6_Tier2OnlyAfterRemoteError ==
    (method \in ThreeTierMethods /\ Len(responses) >= 1) =>
        (Len(requests) >= 2 <=> responses[1].kind = "http_error")

-----------------------------------------------------------------------------
\* Properties of the client-side filter (SpecFilter): one record is filtered
\* by a list of conditions; the record is kept when the result is the input
\* list and dropped when the result is empty.

FilterDone == f_pc = "done"

Kept == f_result = f_items

StrEq == <<"=">>

StrLike == <<"l", "i", "k", "e">>

\* C7: the filter keeps a record if and only if every condition of the list
\* is satisfied by it (AND, no OR): one unsatisfied condition excludes the
\* record whatever the others are, and with an empty list the record is kept.
C7_AllConditions ==
    FilterDone =>
        /\ Kept <=> \A c \in 1..Len(f_criteria) :
                        _filter_by_criteria(f_items, <<f_criteria[c]>>) = f_items
        /\ ~Kept => f_result = <<>>
        /\ f_criteria = <<>> => Kept

\* C7 witness: two conditions, the first satisfied by the record and the
\* second not, and the record was dropped
C7_Witness ==
    /\ FilterDone
    /\ Len(f_criteria) = 2
    /\ _filter_by_criteria(f_items, <<f_criteria[1]>>) = f_items
    /\ _filter_by_criteria(f_items, <<f_criteria[2]>>) = <<>>
    /\ f_result = <<>>

\* C8: a condition with operator `=` is satisfied exactly when
\* str(actual) == str(expected); the comparison is never typed, so the record
\* value 5 is matched by the expected value "5".
C8_StringEquality ==
    FilterDone =>
        /\ \A c \in 1..Len(f_criteria) :
               LET cond == f_criteria[c]
               IN (Truthy(cond.field) /\ EffectiveOp(cond) = StrEq) =>
                      LET same == Str(ResolveField(f_items[1], cond.field))
                                      = Str(cond.value)
                      IN /\ Kept => same
                         /\ Len(f_criteria) = 1 => (Kept <=> same)
        /\ (f_items = <<RecZurichshire>>
            /\ f_criteria = <<Cond(FieldZip, StrFive, OpEq)>>) => Kept

\* C8 witness: the record with zip 5 (a number) was kept by the condition
\* zip = "5" (a string)
C8_Witness ==
    /\ FilterDone
    /\ f_items = <<RecZurichshire>>
    /\ DictGet(f_items[1], KeyZip) = PyInt(5)
    /\ f_criteria = <<Cond(FieldZip, StrFive, OpEq)>>
    /\ Kept

\* C9: a condition with operator `like` is satisfied exactly when the
\* expected value is not None and its string form is, ignoring letter case, a
\* substring of the string form of the record's value: "Zurich" matches the
\* cities "Zurichshire" and "ZURICH" and not "Bern"; None matches nothing.
C9_LikeSubstring ==
    FilterDone =>
        /\ \A c \in 1..Len(f_criteria) :
               LET cond == f_criteria[c]
               IN (Truthy(cond.field) /\ EffectiveOp(cond) = StrLike) =>
                      LET found ==
                              /\ cond.value # None
                              /\ Contains(Lower(Str(ResolveField(f_items[1], cond.field))),
                                          Lower(Str(cond.value)))
                      IN /\ Kept => found
                         /\ Len(f_criteria) = 1 => (Kept <=> found)
        /\ f_criteria = <<Cond(FieldCity, StrZurich, OpLike)>> =>
               /\ f_items \in {<<RecZurichshire>>, <<RecZURICH>>} => Kept
               /\ f_items = <<RecBern>> => ~Kept

\* C9 witness: the record with city "ZURICH" was kept by city like "Zurich"
C9_Witness ==
    /\ FilterDone
    /\ f_items = <<RecZURICH>>
    /\ f_criteria = <<Cond(FieldCity, StrZurich, OpLike)>>
    /\ Kept

\* C10: a condition whose operator is neither `=` nor `like` (such as `>`,
\* `!=`, `is_null`) is satisfied by no record, so a list that contains one
\* filters out every record.
C10_UnknownOperator ==
    FilterDone =>
        ((\E c \in 1..Len(f_criteria) : EffectiveOp(f_criteria[c]) \notin {StrEq, StrLike})
            => f_result = <<>>)

\* C10 witness: a list holding a condition the record satisfies and a `>`
\* condition dropped the record
C10_Witness ==
    /\ FilterDone
    /\ f_items = <<RecZurichshire>>
    /\ f_criteria = <<Cond(FieldCity, StrZurich, OpLike), Cond(FieldCity, StrZurich, OpGt)>>
    /\ f_result = <<>>

-----------------------------------------------------------------------------
\* BexioClient.update_contact (SpecUpdate): one call at a time.

\* key in dict
DictHas(dv, key) == \E j \in 1..Len(dv.d) : dv.d[j].k = key

\* the dict without key, as dict.pop leaves it
DictDel(dv, key) == PyDict(SelectSeq(dv.d, LAMBDA p : p.k # key))

\* dict[key] = val: an existing key keeps its place, a new key goes last
DictSet(dv, key, val) ==
    IF DictHas(dv, key)
    THEN PyDict([j \in 1..Len(dv.d) |->
                    IF dv.d[j].k = key THEN Pair(key, val) ELSE dv.d[j]])
    ELSE PyDict(Append(dv.d, Pair(key, val)))

\* {**a, **b}
RECURSIVE DictMerge(_, _)
DictMerge(a, b) ==
    IF b.d = <<>> THEN a
    ELSE DictMerge(DictSet(a, Head(b.d).k, Head(b.d).v), PyDict(Tail(b.d)))

KeyEmail == <<"e", "m", "a", "i", "l">>

KeyMail == <<"m", "a", "i", "l">>

KeyName1 == <<"n", "a", "m", "e", "_", "1">>

KeyContactTypeId ==
    <<"c", "o", "n", "t", "a", "c", "t", "_", "t", "y", "p", "e", "_", "i", "d">>

KeyUserId == <<"u", "s", "e", "r", "_", "i", "d">>

KeyOwnerId == <<"o", "w", "n", "e", "r", "_", "i", "d">>

\* normalized = dict(contact_data); 'email' becomes 'mail' when 'mail' is absent
NormalizeContact(data) ==
    IF DictHas(data, KeyEmail) /\ ~DictHas(data, KeyMail)
    THEN DictSet(DictDel(data, KeyEmail), KeyMail, DictGet(data, KeyEmail))
    ELSE data

\* merged = {**existing, **normalized}
MergedPayload(existing, normalized) == DictMerge(existing, normalized)

\* slip: normalized is the caller's dict itself, so pop and assignment change it
CallerMapping_aliased(data) == NormalizeContact(data)

\* normalized = dict(contact_data) is a new dict: the caller's mapping is as
\* given after the pop and the assignment on normalized
CallerMapping(data) == data

\* slip: no handler around the fetch
ExceptException_none(exc) == FALSE

\* `except Exception` around the fetch and the first PUT
ExceptException(exc) == TRUE

\* f"/2.0/contact/{contact_id}"
ContactEndpoint(id) == <<"/2.0/contact", id>>

\* self.get(endpoint)
Get(endpoint) ==
    [verb |-> "GET", endpoint |-> endpoint, json |-> NoBody, params |-> <<>>]

\* self.put(endpoint, data)
Put(endpoint, data) ==
    [verb |-> "PUT", endpoint |-> endpoint, json |-> data, params |-> <<>>]

StrOld == PyStr(<<"O", "l", "d">>)

StrNew == PyStr(<<"N", "e", "w">>)

StrOldMail == PyStr(<<"o", "@", "x">>)

StrNewMail == PyStr(<<"n", "@", "x">>)

StrAltMail == PyStr(<<"a", "@", "x">>)

ContactIds == {7}

\* the contact as the remote side holds it
ExistingContacts ==
    {PyDict(<<Pair(KeyName1, StrOld), Pair(KeyContactTypeId, PyInt(2)),
              Pair(KeyUserId, PyInt(1)), Pair(KeyOwnerId, PyInt(1)),
              Pair(KeyMail, StrOldMail)>>),
     PyDict(<<Pair(KeyName1, StrOld), Pair(KeyContactTypeId, PyInt(1)),
              Pair(KeyUserId, PyInt(3)), Pair(KeyOwnerId, PyInt(1))>>)}

\* the entries a caller may put into contact_data, each present or absent
ContactEntries ==
    <<Pair(KeyName1, StrNew), Pair(KeyContactTypeId, PyInt(0)),
      Pair(KeyEmail, StrNewMail), Pair(KeyMail, StrAltMail)>>

ContactPayloads ==
    {PyDict(SelectSeq(ContactEntries, LAMBDA p : p.k \in keys)) :
        keys \in SUBSET {ContactEntries[j].k : j \in 1..Len(ContactEntries)}}

ErrorOutcomes ==
    {HttpError(c) : c \in HttpErrorCodes} \cup {Fault(k) : k \in FaultKinds}

FetchOutcomes == {OkResponse(e) : e \in ExistingContacts} \cup ErrorOutcomes

\* what the remote side may answer the last request, a PUT, with: the stored
\* contact, or an error
PutOutcomes(reqs) ==
    IF reqs = <<>> \/ reqs[Len(reqs)].verb # "PUT" THEN {}
    ELSE {OkResponse(reqs[Len(reqs)].json)} \cup ErrorOutcomes

UpdateFrame ==
    /\ FilterUnchanged
    /\ ClientFrame
    /\ UNCHANGED <<criteria, fallback_limit>>

\* update_contact is called and issues the fetch of the existing contact
UpdateContactCall(id, data) ==
    /\ pc = "idle"
    /\ method' = "update_contact"
    /\ call_args' = [contact_id |-> id, contact_data |-> CallerMapping(data),
                     given |-> data]
    /\ requests' = <<Get(ContactEndpoint(id))>>
    /\ responses' = <<>>
    /\ result' = Pending
    /\ pc' = "u_fetch"
    /\ UpdateFrame

\* the fetch completes: PUT the merged payload, or on an exception PUT the
\* provided fields only
FetchCompletes(outcome) ==
    /\ pc = "u_fetch"
    /\ responses' = Append(responses, outcome)
    /\ LET r == _request(outcome)
           normalized == NormalizeContact(call_args.given)
           endpoint == ContactEndpoint(call_args.contact_id)
       IN IF ~r.raised
          THEN /\ requests' =
                      Append(requests, Put(endpoint, MergedPayload(r.value, normalized)))
               /\ pc' = "u_put_merged"
               /\ UNCHANGED result
          ELSE IF ExceptException(r.exc)
          THEN /\ requests' = Append(requests, Put(endpoint, normalized))
               /\ pc' = "u_put_fallback"
               /\ UNCHANGED result
          ELSE /\ result' = Raised(r.exc)
               /\ pc' = "done"
               /\ UNCHANGED requests
    /\ UNCHANGED <<method, call_args>>
    /\ UpdateFrame

\* the PUT of the merged payload completes: return its result, or on an
\* exception PUT the provided fields only
MergedPutCompletes(outcome) ==
    /\ pc = "u_put_merged"
    /\ outcome \in PutOutcomes(requests)
    /\ responses' = Append(responses, outcome)
    /\ LET r == _request(outcome)
           normalized == NormalizeContact(call_args.given)
           endpoint == ContactEndpoint(call_args.contact_id)
       IN IF ~r.raised
          THEN /\ result' = Returned(r.value)
               /\ pc' = "done"
               /\ UNCHANGED requests
          ELSE IF ExceptException(r.exc)
          THEN /\ requests' = Append(requests, Put(endpoint, normalized))
               /\ pc' = "u_put_fallback"
               /\ UNCHANGED result
          ELSE /\ result' = Raised(r.exc)
               /\ pc' = "done"
               /\ UNCHANGED requests
    /\ UNCHANGED <<method, call_args>>
    /\ UpdateFrame

\* the PUT inside the handler completes: the method returns or raises what
\* _request did
FallbackPutCompletes(outcome) ==
    /\ pc = "u_put_fallback"
    /\ outcome \in PutOutcomes(requests)
    /\ responses' = Append(responses, outcome)
    /\ LET r == _request(outcome)
       IN result' = IF r.raised THEN Raised(r.exc) ELSE Returned(r.value)
    /\ pc' = "done"
    /\ UNCHANGED <<method, call_args, requests>>
    /\ UpdateFrame

\* create_contact is called and posts the normalized payload
CreateContactCall(data) ==
    /\ pc = "idle"
    /\ method' = "create_contact"
    /\ call_args' = [contact_id |-> 0, contact_data |-> CallerMapping(data),
                     given |-> data]
    /\ requests' = <<Post("/2.0/contact", NormalizeContact(data))>>
    /\ responses' = <<>>
    /\ result' = Pending
    /\ pc' = "c_post"
    /\ UpdateFrame

\* the POST completes: create_contact returns or raises what _request did
CreateContactCompletes(outcome) ==
    /\ pc = "c_post"
    /\ responses' = Append(responses, outcome)
    /\ LET r == _request(outcome)
       IN result' = IF r.raised THEN Raised(r.exc) ELSE Returned(r.value)
    /\ pc' = "done"
    /\ UNCHANGED <<method, call_args, requests>>
    /\ UpdateFrame

\* the caller has the outcome of create_contact or update_contact
UpdateEnds ==
    /\ pc = "done"
    /\ pc' = "idle"
    /\ method' = "none"
    /\ call_args' = NoArgs
    /\ requests' = <<>>
    /\ responses' = <<>>
    /\ result' = Pending
    /\ UpdateFrame

UpdateNext ==
    \/ \E id \in ContactIds, data \in ContactPayloads : UpdateContactCall(id, data)
    \/ \E data \in ContactPayloads : CreateContactCall(data)
    \/ \E outcome \in {OkResponse(e) : e \in ExistingContacts} \cup ErrorOutcomes :
          CreateContactCompletes(outcome)
    \/ \E outcome \in FetchOutcomes : FetchCompletes(outcome)
    \/ \E outcome \in PutOutcomes(requests) : MergedPutCompletes(outcome)
    \/ \E outcome \in PutOutcomes(requests) : FallbackPutCompletes(outcome)
    \/ UpdateEnds

SpecUpdate == Init /\ [][UpdateNext]_vars

-----------------------------------------------------------------------------
\* Claims on update_contact (SpecUpdate)

UpdateRunning == method = "update_contact" /\ Len(responses) >= 1

FetchSucceeded == UpdateRunning /\ ~_request(responses[1]).raised

FetchFailed == UpdateRunning /\ _request(responses[1]).raised

Fetched == _request(responses[1]).value

Supplied == NormalizeContact(call_args.contact_data)

PutRequests == {j \in 1..Len(requests) : requests[j].verb = "PUT"}

\* the payload has the fetched value of every field the caller omitted and the
\* caller's value of every field the caller supplied
CarriesMerge(payload) ==
    /\ \A j \in 1..Len(Fetched.d) :
          ~DictHas(Supplied, Fetched.d[j].k) =>
              /\ DictHas(payload, Fetched.d[j].k)
              /\ DictGet(payload, Fetched.d[j].k) = Fetched.d[j].v
    /\ \A j \in 1..Len(Supplied.d) :
          /\ DictHas(payload, Supplied.d[j].k)
          /\ DictGet(payload, Supplied.d[j].k) = Supplied.d[j].v

\* C13: when the fetch of the existing contact succeeded, every PUT the call
\* sends carries the fetched value of each field the caller omitted and the
\* caller's value of each field the caller supplied.
C13_PutCarriesMerge ==
    FetchSucceeded => \A j \in PutRequests : CarriesMerge(requests[j].json)

\* C14: when the fetch of the existing contact fails, the call still sends
\* one PUT, whose payload is exactly the caller's fields (email sent as mail),
\* and the call ends with what that PUT gave: its rejection, never the fetch
\* failure.
C14_FallbackAfterFetchFailure ==
    FetchFailed =>
        /\ Len(requests) = 2
        /\ requests[2] = Put(ContactEndpoint(call_args.contact_id), Supplied)
        /\ \A j \in 1..Len(requests[2].json.d) :
              \E i \in 1..Len(call_args.contact_data.d) :
                  call_args.contact_data.d[i].v = requests[2].json.d[j].v
        /\ pc = "done" =>
              /\ Len(responses) = 2
              /\ result = IF _request(responses[2]).raised
                          THEN Raised(_request(responses[2]).exc)
                          ELSE Returned(_request(responses[2]).value)

C14_Witness ==
    /\ FetchFailed
    /\ pc = "done"
    /\ responses[1] = HttpError(500)
    /\ responses[2] = HttpError(422)
    /\ result = Raised(ApiError(422))
    /\ DictHas(call_args.contact_data, KeyEmail)
    /\ ~DictHas(requests[2].json, KeyEmail)

-----------------------------------------------------------------------------
\* The completion engine, BexioFieldValidator.auto_complete_fields, as
\* server.py declares its behaviour (SpecComplete).

PyBool(b) == [t |-> "bool", i |-> IF b THEN 1 ELSE 0, s |-> <<>>, d |-> <<>>]

\* a float with a whole value n, such as 0.0
PyFloat(n) == [t |-> "float", i |-> n, s |-> <<>>, d |-> <<>>]

\* a list, its items in order
PyList(items) == [t |-> "list", i |-> 0, s |-> <<>>, d |-> items]

KeyPrStateId == <<"p", "r", "_", "s", "t", "a", "t", "e", "_", "i", "d">>

KeyPrProjectTypeId ==
    <<"p", "r", "_", "p", "r", "o", "j", "e", "c", "t", "_", "t", "y", "p", "e", "_", "i", "d">>

KeyArticleTypeId ==
    <<"a", "r", "t", "i", "c", "l", "e", "_", "t", "y", "p", "e", "_", "i", "d">>

KeyCurrencyId == <<"c", "u", "r", "r", "e", "n", "c", "y", "_", "i", "d">>

KeyIsStock == <<"i", "s", "_", "s", "t", "o", "c", "k">>

KeyDeliveryPrice ==
    <<"d", "e", "l", "i", "v", "e", "r", "y", "_", "p", "r", "i", "c", "e">>

KeyName == <<"n", "a", "m", "e">>

KeyContactId == <<"c", "o", "n", "t", "a", "c", "t", "_", "i", "d">>

KeyInternName == <<"i", "n", "t", "e", "r", "n", "_", "n", "a", "m", "e">>

KeyPositions == <<"p", "o", "s", "i", "t", "i", "o", "n", "s">>

KeyType == <<"t", "y", "p", "e">>

KeyText == <<"t", "e", "x", "t">>

KeyAmount == <<"a", "m", "o", "u", "n", "t">>

KeyUnitPrice == <<"u", "n", "i", "t", "_", "p", "r", "i", "c", "e">>

KeyTaxId == <<"t", "a", "x", "_", "i", "d">>

KeyId == <<"i", "d">>

StrKbPositionCustom ==
    PyStr(<<"K", "b", "P", "o", "s", "i", "t", "i", "o", "n", "C", "u", "s", "t", "o", "m">>)

StrKbPositionArticle ==
    PyStr(<<"K", "b", "P", "o", "s", "i", "t", "i", "o", "n", "A", "r", "t", "i", "c", "l", "e">>)

StrConsulting == PyStr(<<"C", "o", "n", "s", "u", "l", "t", "i", "n", "g">>)


\* slip: only user_id has a default
StaticDefaults_user_id_only(name) == <<Pair(KeyUserId, PyInt(1))>>

\* AUTO_FILL_DEFAULT: the fields filled with a fixed value, per tool
StaticDefaults(name) ==
    CASE name = "create_contact" ->
           <<Pair(KeyContactTypeId, PyInt(2)), Pair(KeyUserId, PyInt(1)),
             Pair(KeyOwnerId, PyInt(1))>>
      [] name = "create_project" ->
           <<Pair(KeyUserId, PyInt(1)), Pair(KeyPrStateId, PyInt(1)),
             Pair(KeyPrProjectTypeId, PyInt(1))>>
      [] name = "create_item" ->
           <<Pair(KeyUserId, PyInt(1)), Pair(KeyArticleTypeId, PyInt(1)),
             Pair(KeyCurrencyId, PyInt(1)), Pair(KeyIsStock, PyBool(FALSE)),
             Pair(KeyDeliveryPrice, PyInt(0))>>
      [] name \in {"create_invoice", "create_quote"} ->
           <<Pair(KeyUserId, PyInt(1))>>
      [] OTHER -> <<>>

\* slip: amount defaults to 0
PositionDefaults_zero_amount ==
    <<Pair(KeyType, StrKbPositionCustom), Pair(KeyAmount, PyInt(0)),
      Pair(KeyUnitPrice, PyFloat(0))>>

\* INVOICE/QUOTE POSITIONS: the fields of a position filled with a fixed value
PositionDefaults ==
    <<Pair(KeyType, StrKbPositionCustom), Pair(KeyAmount, PyInt(1)),
      Pair(KeyUnitPrice, PyFloat(0))>>

\* REQUIRED_USER_INPUT: the fields only the caller can give, per tool
RequiredInput(name) ==
    CASE name = "create_contact" -> <<KeyName1>>
      [] name = "create_project" -> <<KeyName, KeyContactId>>
      [] name = "create_item" -> <<KeyInternName>>
      [] name = "create_invoice" -> <<KeyContactId, KeyPositions>>
      [] name = "create_quote" -> <<KeyContactId>>
      [] OTHER -> <<>>

\* ValidationError(kind=MissingRequiredField, field)
MissingRequiredField(field) ==
    [type |-> "ValidationError", text |-> "MissingRequiredField", status |-> 0,
     cause |-> field]

\* slip: a field whose value is falsy counts as absent
RECURSIVE FillStatic_overwrite_falsy(_, _)
FillStatic_overwrite_falsy(payload, defaults) ==
    IF defaults = <<>> THEN payload
    ELSE FillStatic_overwrite_falsy(
             IF Truthy(DictGet(payload, Head(defaults).k)) THEN payload
             ELSE DictSet(payload, Head(defaults).k, Head(defaults).v),
             Tail(defaults))

\* each default whose field is absent from the payload is added; a field the
\* payload has, whatever its value, is left alone
RECURSIVE FillStatic(_, _)
FillStatic(payload, defaults) ==
    IF defaults = <<>> THEN payload
    ELSE FillStatic(IF DictHas(payload, Head(defaults).k) THEN payload
                    ELSE DictSet(payload, Head(defaults).k, Head(defaults).v),
                    Tail(defaults))

\* LOOKUP of tax_id: the id of the first tax of the read, None when the read
\* failed or gave no tax
FirstTax(taxes) ==
    IF taxes.kind = "ok" /\ taxes.data # <<>>
    THEN DictGet(taxes.data[1], KeyId)
    ELSE None

\* one position: fixed defaults, then tax_id from the lookup when it gave one
CompletePosition(position, taxes) ==
    LET filled == FillStatic(position, PositionDefaults)
    IN IF DictHas(filled, KeyTaxId) \/ FirstTax(taxes) = None THEN filled
       ELSE DictSet(filled, KeyTaxId, FirstTax(taxes))

HasPositions(payload) ==
    DictHas(payload, KeyPositions) /\ DictGet(payload, KeyPositions).t = "list"

\* the required fields the payload lacks, in rule order, then `text` when a
\* position lacks it
MissingFields(name, payload) ==
    LET required == SelectSeq(RequiredInput(name), LAMBDA f : ~DictHas(payload, f))
        positions == IF HasPositions(payload) THEN DictGet(payload, KeyPositions).d
                     ELSE <<>>
    IN IF \E j \in 1..Len(positions) : ~DictHas(positions[j], KeyText)
       THEN Append(required, KeyText)
       ELSE required

\* the completed payload of a tool call, or the failure of its completion
complete(name, payload, taxes) ==
    IF MissingFields(name, payload) # <<>>
    THEN [raised |-> TRUE, value |-> <<>>,
          exc |-> MissingRequiredField(Head(MissingFields(name, payload)))]
    ELSE LET filled == FillStatic(payload, StaticDefaults(name))
             positions == DictGet(filled, KeyPositions).d
         IN [raised |-> FALSE,
             value |-> IF HasPositions(filled)
                       THEN DictSet(filled, KeyPositions,
                                PyList([j \in 1..Len(positions) |->
                                           CompletePosition(positions[j], taxes)]))
                       ELSE filled,
             exc |-> NoExc]

\* Inputs of the completion engine.

MaxPositions == 2

\* the dicts that give each field of `fields`, in order, one of its values or
\* leave it out (<<>> among the values of a field stands for leaving it out)
RECURSIVE DictsOver(_)
DictsOver(fields) ==
    IF fields = <<>> THEN {<<>>}
    ELSE {IF v = <<>> THEN rest ELSE <<Pair(Head(fields).k, v)>> \o rest :
              v \in Head(fields).vs, rest \in DictsOver(Tail(fields))}

Field(key, values) == [k |-> key, vs |-> values]

ContactData ==
    {PyDict(d) : d \in DictsOver(<<
        Field(KeyName1, {<<>>, StrNew, PyStr(<<>>)}),
        Field(KeyContactTypeId, {<<>>, PyInt(0), PyInt(1)}),
        Field(KeyUserId, {<<>>, PyInt(0)}),
        Field(KeyOwnerId, {<<>>, PyInt(5)})>>)}

ProjectData ==
    {PyDict(d) : d \in DictsOver(<<
        Field(KeyName, {<<>>, StrNew}),
        Field(KeyContactId, {<<>>, PyInt(7)}),
        Field(KeyUserId, {<<>>, PyInt(0)}),
        Field(KeyPrStateId, {<<>>, PyInt(2)}),
        Field(KeyPrProjectTypeId, {<<>>, PyInt(0)})>>)}

ItemData ==
    {PyDict(d) : d \in DictsOver(<<
        Field(KeyInternName, {<<>>, StrNew}),
        Field(KeyUserId, {<<>>, PyInt(0)}),
        Field(KeyArticleTypeId, {<<>>, PyInt(2)}),
        Field(KeyCurrencyId, {<<>>, PyInt(0)}),
        Field(KeyIsStock, {<<>>, PyBool(TRUE), PyBool(FALSE)}),
        Field(KeyDeliveryPrice, {<<>>, PyInt(0), PyInt(5)})>>)}

PosTextOnly == PyDict(<<Pair(KeyText, StrConsulting)>>)

PosFull ==
    PyDict(<<Pair(KeyType, StrKbPositionArticle), Pair(KeyText, StrNew),
             Pair(KeyAmount, PyInt(0)), Pair(KeyUnitPrice, PyFloat(5)),
             Pair(KeyTaxId, PyInt(9))>>)

PosZeroAmount == PyDict(<<Pair(KeyAmount, PyInt(0)), Pair(KeyText, StrConsulting)>>)

PosNoText == PyDict(<<Pair(KeyAmount, PyInt(2))>>)

Positions == {PosTextOnly, PosFull, PosZeroAmount, PosNoText}

PositionLists == {PyList(l) : l \in SeqsUpTo(Positions, MaxPositions)}

SalesData ==
    {PyDict(d) : d \in DictsOver(<<
        Field(KeyContactId, {<<>>, PyInt(7)}),
        Field(KeyUserId, {<<>>, PyInt(0)}),
        Field(KeyPositions, {<<>>} \cup PositionLists)>>)}

\* the payloads a tool's completion is run on
PayloadsOf(name) ==
    CASE name = "create_contact" -> ContactData
      [] name = "create_project" -> ProjectData
      [] name = "create_item" -> ItemData
      [] OTHER -> SalesData

CreateNames ==
    {"create_contact", "create_project", "create_item", "create_invoice", "create_quote"}

Tax(id) == PyDict(<<Pair(KeyId, PyInt(id))>>)

\* what the read of the taxes may give
TaxOutcomes ==
    {OkResponse(<<Tax(3), Tax(4)>>), OkResponse(<<>>), Fault("network")}

CompleteInit ==
    /\ pc = "idle"
    /\ method = "none"
    /\ criteria = <<>>
    /\ fallback_limit = <<>>
    /\ requests = <<>>
    /\ responses = <<>>
    /\ result = Pending
    /\ call_args = NoArgs
    /\ f_pc = "off"
    /\ f_items = <<>>
    /\ f_criteria = <<>>
    /\ f_result = <<>>
    /\ ToolOff
    /\ e_pc = "ready"
    /\ e_name \in CreateNames
    /\ e_payload \in PayloadsOf(e_name)
    /\ e_taxes \in TaxOutcomes
    /\ e_out = Pending

\* the engine completes the payload
ApplyComplete ==
    /\ e_pc = "ready"
    /\ LET r == complete(e_name, e_payload, e_taxes)
       IN e_out' = IF r.raised THEN Raised(r.exc) ELSE Returned(r.value)
    /\ e_pc' = "done"
    /\ UNCHANGED <<pc, method, criteria, fallback_limit, requests, responses, result,
                   call_args, f_pc, f_items, f_criteria, f_result, tool_vars,
                   e_name, e_payload, e_taxes>>

\* the engine is applied once more, to the payload it returned
ApplyAgain(taxes) ==
    /\ e_pc = "done"
    /\ e_out.status = "returned"
    /\ e_payload' = e_out.value
    /\ e_taxes' = taxes
    /\ e_out' = Pending
    /\ e_pc' = "ready"
    /\ UNCHANGED <<pc, method, criteria, fallback_limit, requests, responses, result,
                   call_args, f_pc, f_items, f_criteria, f_result, tool_vars, e_name>>

CompleteNext ==
    \/ ApplyComplete
    \/ \E taxes \in TaxOutcomes : ApplyAgain(taxes)

SpecComplete == CompleteInit /\ [][CompleteNext]_vars

-----------------------------------------------------------------------------
\* Claims on the completion engine (SpecComplete)

Completed == e_pc = "done" /\ e_out.status = "returned"

\* the defaults as declared for contact, project and item
DeclaredDefaults ==
    [create_contact |->
        {Pair(KeyContactTypeId, PyInt(2)), Pair(KeyUserId, PyInt(1)),
         Pair(KeyOwnerId, PyInt(1))},
     create_project |->
        {Pair(KeyUserId, PyInt(1)), Pair(KeyPrStateId, PyInt(1)),
         Pair(KeyPrProjectTypeId, PyInt(1))},
     create_item |->
        {Pair(KeyUserId, PyInt(1)), Pair(KeyArticleTypeId, PyInt(1)),
         Pair(KeyCurrencyId, PyInt(1)), Pair(KeyIsStock, PyBool(FALSE)),
         Pair(KeyDeliveryPrice, PyInt(0))}]

\* every entry of dict `before` is an entry of dict `after`
KeepsEntries(before, after) ==
    \A j \in 1..Len(before.d) :
        /\ DictHas(after, before.d[j].k)
        /\ DictGet(after, before.d[j].k) = before.d[j].v

\* C11: a completed contact, project or item create payload has every
\* declared static default whose field the caller left out, and every field
\* the caller gave, falsy values included, with the caller's value.
C11_StaticDefaults ==
    (Completed /\ e_name \in DOMAIN DeclaredDefaults) =>
        /\ \A p \in DeclaredDefaults[e_name] :
              ~DictHas(e_payload, p.k) =>
                  DictHas(e_out.value, p.k) /\ DictGet(e_out.value, p.k) = p.v
        /\ KeepsEntries(e_payload, e_out.value)

C11_Witness ==
    /\ Completed
    /\ e_name = "create_contact"
    /\ e_payload = PyDict(<<Pair(KeyName1, StrNew), Pair(KeyUserId, PyInt(0))>>)
    /\ DictGet(e_out.value, KeyContactTypeId) = PyInt(2)
    /\ DictGet(e_out.value, KeyOwnerId) = PyInt(1)
    /\ DictGet(e_out.value, KeyUserId) = PyInt(0)
    /\ DictGet(e_out.value, KeyName1) = StrNew

PositionsIn == DictGet(e_payload, KeyPositions).d

PositionsOut == DictGet(e_out.value, KeyPositions).d

-----------------------------------------------------------------------------
\* The server process: main, get_bexio_client and call_tool (SpecTool).

\* an exception raised inside call_tool: its class and str(e)
PyExc(type, msg) == [type |-> type, msg |-> msg]

Whitespace == {" ", "\t", "\n"}

\* slip: the value is used as it is
Strip_none(chars) == chars

\* str.strip()
RECURSIVE Strip(_)
Strip(chars) ==
    IF chars = <<>> THEN <<>>
    ELSE IF Head(chars) \in Whitespace THEN Strip(Tail(chars))
    ELSE IF chars[Len(chars)] \in Whitespace THEN Strip(SubSeq(chars, 1, Len(chars) - 1))
    ELSE chars

\* os.getenv(key, default)
Getenv(env, key, default) == IF key \in DOMAIN env THEN env[key] ELSE default

MissingTokenText ==
    <<"M", "i", "s", "s", "i", "n", "g", " ", "B", "E", "X", "I", "O", "_", "A", "C",
      "C", "E", "S", "S", "_", "T", "O", "K", "E", "N", ".", " ", "S", "e", "t", " ",
      "i", "t", " ", "i", "n", " ", "y", "o", "u", "r", " ", "C", "l", "a", "u", "d",
      "e", " ", "c", "o", "n", "f", "i", "g", " ", "e", "n", "v", " ", "o", "r", " ",
      "i", "n", " ", "a", " ", ".", "e", "n", "v", " ", "f", "i", "l", "e", ".">>

\* raise ValueError(f"Failed to create Bexio client: {e}")
FailedToCreate(msg) ==
    PyExc("ValueError", <<"F", "a", "i", "l", "e", "d", " ", "t", "o", " ", "c", "r",
                          "e", "a", "t", "e", " ", "B", "e", "x", "i", "o", " ", "c",
                          "l", "i", "e", "n", "t", ":", " ">> \o msg)

\* slip: a client is built on every call
NeedsClient_always(global) == TRUE

\* `if bexio_client is None`
NeedsClient(global) == global = 0

\* get_bexio_client(): the client it returns or the exception it raises, and
\* the module globals it leaves. It has no await: it runs in one step.
get_bexio_client(env, g_client, g_validator, built) ==
    IF ~NeedsClient(g_client)
    THEN [raised |-> FALSE, exc |-> PyExc("none", <<>>), client |-> g_client,
          bexio_client |-> g_client, field_validator |-> g_validator,
          constructed |-> built]
    ELSE IF Strip(Getenv(env, "BEXIO_ACCESS_TOKEN", <<>>)) = <<>>
    THEN [raised |-> TRUE, exc |-> FailedToCreate(MissingTokenText), client |-> 0,
          bexio_client |-> g_client, field_validator |-> g_validator,
          constructed |-> built]
    ELSE [raised |-> FALSE, exc |-> PyExc("none", <<>>), client |-> built.client + 1,
          bexio_client |-> built.client + 1,
          field_validator |-> built.validator + 1,
          constructed |-> [client |-> built.client + 1,
                           validator |-> built.validator + 1]]

\* ValueError(f"Bexio API error - {error_detail}"), error_detail being
\* "HTTP <status>" and, when the body has a message, ": <message>"
ApiErrorExc(status, message) ==
    PyExc("ValueError",
          <<"B", "e", "x", "i", "o", " ", "A", "P", "I", " ", "e", "r", "r", "o", "r",
            " ", "-", " ">> \o <<
                                                                                                                        "H",
                                                                                                                        "T",
                                                                                                                        "T",
                                                                                                                        "P",
                                                                                                                        " ">> \o IntToStr(status)
              \o (IF message # <<>> THEN <<":", " ">> \o message ELSE <<>>))

\* ValueError(f"Request failed: {str(e)}")
RequestFailedExc(text) == PyExc("ValueError", <<"R", "e", "q", "u", "e", "s", "t", " ",
                                                "f", "a", "i", "l", "e", "d", ":", " ">> \o text)

\* str(KeyError(key)) is repr(key)
KeyErrorExc(key) == PyExc("KeyError", <<"'">> \o key \o <<"'">>)

\* client.<method> where BexioClient has no such method
AttributeErrorExc(attr) ==
    PyExc("AttributeError",
          <<"'", "B", "e", "x", "i", "o", "C", "l", "i", "e", "n", "t", "'", " ", "o",
            "b", "j", "e", "c", "t", " ", "h", "a", "s", " ", "n", "o", " ", "a", "t",
            "t", "r", "i", "b", "u", "t", "e", " ", "'">> \o attr \o <<"'">>)

\* the engine's MissingRequiredField failure as call_tool sees it
MissingFieldExc(field) ==
    PyExc("ValidationError", <<"M", "i", "s", "s", "i", "n", "g", " ", "r", "e", "q",
                               "u", "i", "r", "e", "d", " ", "f", "i", "e", "l", "d",
                               ":", " ">> \o field)

\* `"422" in error_msg or "HTTP 422" in error_msg`
Mentions422(error_msg) ==
    Contains(error_msg, <<"4", "2", "2">>) \/ Contains(error_msg, <<"H", "T", "T", "P",
                                                                    " ", "4", "2", "2">>)

\* slip: the error text is dropped
ErrorText_generic(error_msg) == <<"E", "r", "r", "o", "r">>

\* f"Error: {error_msg}"
ErrorText(error_msg) == <<"E", "r", "r", "o", "r", ":", " ">> \o error_msg

\* field_validator.create_helpful_error_message(error_msg): guidance followed
\* by the original error text for an HTTP 422 error, the raw error otherwise
create_helpful_error_message(error_msg) ==
    IF Contains(error_msg, <<"H", "T", "T", "P", " ", "4", "2", "2">>)
    THEN <<"V", "a", "l", "i", "d", "a", "t", "i", "o", "n", " ", "f", "a", "i", "l",
           "e", "d", ".", " ", "O", "r", "i", "g", "i", "n", "a", "l", " ", "e", "r",
           "r", "o", "r", ":", " ">> \o error_msg
    ELSE error_msg

\* slip: only ValueError is handled
CaughtByHandler_value_error(exc) == exc.type = "ValueError"

\* `except Exception as e` of call_tool
CaughtByHandler(exc) == TRUE

\* the except handler of call_tool: the text it returns, and whether it went
\* through the enhancer
ExceptHandler(exc, g_validator) ==
    IF Mentions422(exc.msg) /\ g_validator # 0
    THEN [text |-> create_helpful_error_message(exc.msg), enhanced |-> TRUE]
    ELSE [text |-> ErrorText(exc.msg), enhanced |-> FALSE]

Spaces(n) == [j \in 1..n |-> " "]

\* json.dumps(v, indent=2) at nesting depth `level`, for text without
\* characters that need escaping
RECURSIVE JsonDumps(_, _)
JsonDumps(v, level) ==
    LET RECURSIVE Join(_, _)
        Join(items, j) ==
            IF j > Len(items) THEN <<>>
            ELSE Spaces(2 * (level + 1)) \o items[j]
                    \o (IF j < Len(items) THEN <<",", "\n">> ELSE <<"\n">>)
                    \o Join(items, j + 1)
    IN CASE v.t = "none" -> <<"n", "u", "l", "l">>
         [] v.t = "int" -> IntToStr(v.i)
         [] v.t = "float" -> IntToStr(v.i) \o <<".", "0">>
         [] v.t = "bool" -> IF v.i = 1 THEN <<"t", "r", "u", "e">> ELSE <<"f", "a",
                                                                          "l", "s", "e">>
         [] v.t = "str" -> <<"\"">> \o v.s \o <<"\"">>
         [] v.t = "list" ->
              IF v.d = <<>> THEN <<"[", "]">>
              ELSE <<"[", "\n">>
                      \o Join([j \in 1..Len(v.d) |-> JsonDumps(v.d[j], level + 1)], 1)
                      \o Spaces(2 * level) \o <<"]">>
         [] OTHER ->
              IF v.d = <<>> THEN <<"{", "}">>
              ELSE <<"{", "\n">>
                      \o Join([j \in 1..Len(v.d) |->
                                  <<"\"">> \o v.d[j].k \o <<"\"", ":", " ">>
                                      \o JsonDumps(v.d[j].v, level + 1)], 1)
                      \o Spaces(2 * level) \o <<"}">>

\* slip: nothing goes through the engine
CompletionNames_none == {}

\* the names call_tool passes through auto_complete_fields
CompletionNames ==
    {"create_contact", "update_contact", "create_invoice", "update_invoice",
     "create_quote", "update_quote", "create_project", "update_project",
     "create_item"}

KeyContactData == <<"c", "o", "n", "t", "a", "c", "t", "_", "d", "a", "t", "a">>

KeyInvoiceId == <<"i", "n", "v", "o", "i", "c", "e", "_", "i", "d">>

KeyTimesheetId == <<"t", "i", "m", "e", "s", "h", "e", "e", "t", "_", "i", "d">>

KeyTimesheetData == <<"t", "i", "m", "e", "s", "h", "e", "e", "t", "_", "d", "a", "t",
                      "a">>

KeyEntryData == <<"e", "n", "t", "r", "y", "_", "d", "a", "t", "a">>

\* the branches of call_tool's if/elif chain that the model runs: the keys
\* the branch subscripts `arguments` with, in order, the BexioClient method it
\* calls, and whether it passes `arguments` itself
Handlers ==
    [get_contact |->
        [keys |-> <<KeyContactId>>, method |-> "get_contact", whole |-> FALSE],
     create_contact |->
        [keys |-> <<KeyContactData>>, method |-> "create_contact", whole |-> FALSE],
     update_contact |->
        [keys |-> <<KeyContactId, KeyContactData>>, method |-> "update_contact",
         whole |-> FALSE],
     create_invoice |->
        [keys |-> <<>>, method |-> "create_invoice", whole |-> TRUE],
     create_manual_entry |->
        [keys |-> <<KeyEntryData>>, method |-> "create_manual_entry", whole |-> FALSE],
     create_timesheet |->
        [keys |-> <<KeyTimesheetData>>, method |-> "create_timesheet", whole |-> FALSE],
     update_timesheet |->
        [keys |-> <<KeyTimesheetId, KeyTimesheetData>>, method |-> "update_timesheet",
         whole |-> FALSE]]

\* the methods of these that BexioClient defines
ClientMethods ==
    {"get_contact", "create_contact", "update_contact", "create_invoice",
     "create_manual_entry", "create_timesheet"}

\* str(name) of the tool names the model calls
NameText ==
    [get_contact |-> <<"g", "e", "t", "_", "c", "o", "n", "t", "a", "c", "t">>,
     create_contact |-> <<"c", "r", "e", "a", "t", "e", "_", "c", "o", "n", "t", "a",
                          "c", "t">>,
     update_contact |-> <<"u", "p", "d", "a", "t", "e", "_", "c", "o", "n", "t", "a",
                          "c", "t">>,
     create_invoice |-> <<"c", "r", "e", "a", "t", "e", "_", "i", "n", "v", "o", "i",
                          "c", "e">>,
     update_invoice |-> <<"u", "p", "d", "a", "t", "e", "_", "i", "n", "v", "o", "i",
                          "c", "e">>,
     create_manual_entry |-> <<"c", "r", "e", "a", "t", "e", "_", "m", "a", "n", "u",
                               "a", "l", "_", "e", "n", "t", "r", "y">>,
     create_timesheet |-> <<"c", "r", "e", "a", "t", "e", "_", "t", "i", "m", "e", "s",
                            "h", "e", "e", "t">>,
     update_timesheet |-> <<"u", "p", "d", "a", "t", "e", "_", "t", "i", "m", "e", "s",
                            "h", "e", "e", "t">>,
     frobnicate |-> <<"f", "r", "o", "b", "n", "i", "c", "a", "t", "e">>]

\* f"Unknown tool: {name}"
UnknownToolText(name) == <<"U", "n", "k", "n", "o", "w", "n", " ", "t", "o", "o", "l",
                           ":", " ">> \o NameText[name]

\* the payload of `arguments` the engine completes for a tool, as a key of
\* `arguments`; <<>> when it is `arguments` itself
DataKey(name) ==
    CASE name = "create_contact" -> KeyContactData
      [] OTHER -> <<>>

\* field_validator.auto_complete_fields(name, arguments)
auto_complete_fields(name, arguments, taxes) ==
    LET nested == DataKey(name) # <<>>
        payload == IF nested THEN DictGet(arguments, DataKey(name)) ELSE arguments
        r == complete(name, payload, taxes)
    IN IF name \notin CreateNames \/ payload.t # "dict"
       THEN [raised |-> FALSE, value |-> arguments, exc |-> PyExc("none", <<>>)]
       ELSE IF r.raised
       THEN [raised |-> TRUE, value |-> <<>>, exc |-> MissingFieldExc(r.exc.cause)]
       ELSE [raised |-> FALSE,
             value |-> IF nested THEN DictSet(arguments, DataKey(name), r.value)
                       ELSE r.value,
             exc |-> PyExc("none", <<>>)]

\* what a branch hands to the client method: `arguments`, or the values of
\* its keys in order
Handed(name, arguments) ==
    IF Handlers[name].whole THEN <<arguments>>
    ELSE [j \in 1..Len(Handlers[name].keys) |->
             DictGet(arguments, Handlers[name].keys[j])]

Calls == {1, 2}

IdleCall ==
    [pc |-> "idle", name |-> "none", given |-> None, arguments |-> None,
     client |-> 0, completed |-> FALSE, invoked |-> "none", sent |-> <<>>,
     exc |-> PyExc("none", <<>>), status |-> 0, enhanced |-> FALSE,
     out |-> [kind |-> "none", text |-> <<>>]]

\* return [TextContent(type="text", text=...)]
TextResult(text) == [kind |-> "text", text |-> text]

\* the call ends in the except handler, or with the exception when the
\* handler does not catch it
Fails(call, exc, status, g_validator) ==
    IF CaughtByHandler(exc)
    THEN [call EXCEPT !.pc = "done", !.exc = exc, !.status = status,
                      !.enhanced = ExceptHandler(exc, g_validator).enhanced,
                      !.out = TextResult(ExceptHandler(exc, g_validator).text)]
    ELSE [call EXCEPT !.pc = "done", !.exc = exc, !.status = status,
                      !.out = [kind |-> "raised", text |-> exc.msg]]

\* the if/elif chain of call_tool, from its first test to the first await or
\* to the return
Dispatch(call, g_validator) ==
    IF call.name \notin DOMAIN Handlers
    THEN [call EXCEPT !.pc = "done", !.out = TextResult(UnknownToolText(call.name))]
    ELSE LET missing == SelectSeq(Handlers[call.name].keys,
                                  LAMBDA key : ~DictHas(call.arguments, key))
         IN IF missing # <<>>
            THEN Fails(call, KeyErrorExc(Head(missing)), 0, g_validator)
            ELSE IF Handlers[call.name].method \notin ClientMethods
            THEN Fails(call, AttributeErrorExc(NameText[Handlers[call.name].method]),
                       0, g_validator)
            ELSE [call EXCEPT !.pc = "method",
                              !.invoked = Handlers[call.name].method,
                              !.sent = Handed(call.name, call.arguments)]

\* Inputs of the server process.

TokenAbsent == <<>>

Environs ==
    {TokenAbsent,
     [BEXIO_ACCESS_TOKEN |-> <<" ", " ">>],
     [BEXIO_ACCESS_TOKEN |-> <<"t", "o", "k">>],
     [BEXIO_ACCESS_TOKEN |-> <<" ", "t", "o", "k", "\n">>]}

ContactNew == PyDict(<<Pair(KeyName1, StrNew)>>)

TimesheetNew == PyDict(<<Pair(KeyUserId, PyInt(1))>>)

\* the tool calls the host makes: name and arguments
ToolInputs ==
    {[name |-> "get_contact", arguments |-> PyDict(<<Pair(KeyContactId, PyInt(422))>>)],
     [name |-> "get_contact", arguments |-> PyDict(<<>>)],
     [name |-> "create_contact",
      arguments |-> PyDict(<<Pair(KeyContactData, ContactNew)>>)],
     [name |-> "create_contact",
      arguments |-> PyDict(<<Pair(KeyContactData, PyDict(<<>>))>>)],
     [name |-> "create_contact", arguments |-> PyDict(<<>>)],
     [name |-> "update_contact",
      arguments |-> PyDict(<<Pair(KeyContactId, PyInt(7)),
                             Pair(KeyContactData, ContactNew)>>)],
     [name |-> "create_invoice",
      arguments |-> PyDict(<<Pair(KeyContactId, PyInt(7)),
                             Pair(KeyPositions, PyList(<<PosTextOnly>>))>>)],
     [name |-> "create_invoice",
      arguments |-> PyDict(<<Pair(KeyContactId, PyInt(7)),
                             Pair(KeyPositions, PyList(<<PosNoText>>))>>)],
     [name |-> "update_invoice",
      arguments |-> PyDict(<<Pair(KeyInvoiceId, PyInt(7))>>)],
     [name |-> "create_manual_entry",
      arguments |-> PyDict(<<Pair(KeyEntryData, PyDict(<<Pair(KeyAmount, PyInt(5))>>))>>)],
     [name |-> "create_timesheet",
      arguments |-> PyDict(<<Pair(KeyTimesheetData, TimesheetNew)>>)],
     [name |-> "update_timesheet",
      arguments |-> PyDict(<<Pair(KeyTimesheetId, PyInt(7)),
                             Pair(KeyTimesheetData, TimesheetNew)>>)],
     [name |-> "frobnicate", arguments |-> PyDict(<<>>)]}

\* how a BexioClient method ends for call_tool: its return value, or the
\* ValueError _request raises for an HTTP error status or another failure
MethodOutcomes ==
    {[kind |-> "ok", value |-> PyDict(<<Pair(KeyId, PyInt(7)), Pair(KeyName1, StrNew)>>)],
     [kind |-> "ok", value |-> PyList(<<>>)],
     [kind |-> "http", status |-> 422, message |-> <<"b", "a", "d">>],
     [kind |-> "http", status |-> 404, message |-> <<"i", "d", " ", "4", "2", "2">>],
     [kind |-> "http", status |-> 500, message |-> <<>>],
     [kind |-> "fault", text |-> <<"t", "i", "m", "e", "d", " ", "o", "u", "t">>]}

\* what the engine's read of the taxes gives during a tool call
ToolTaxOutcomes == {OkResponse(<<Tax(3)>>), Fault("network")}

ToolInit ==
    /\ pc = "idle"
    /\ method = "none"
    /\ criteria = <<>>
    /\ fallback_limit = <<>>
    /\ requests = <<>>
    /\ responses = <<>>
    /\ result = Pending
    /\ call_args = NoArgs
    /\ f_pc = "off"
    /\ f_items = <<>>
    /\ f_criteria = <<>>
    /\ f_result = <<>>
    /\ EngineOff
    /\ environ \in Environs
    /\ serving = FALSE
    /\ bexio_client = 0
    /\ field_validator = 0
    /\ constructed = [client |-> 0, validator |-> 0]
    /\ calls = [c \in Calls |-> IdleCall]

ToolFrame ==
    UNCHANGED <<pc, method, criteria, fallback_limit, requests, responses, result,
                call_args, f_pc, f_items, f_criteria, f_result, engine_vars, environ>>

\* main() enters stdio_server and server.run
MainStarts ==
    /\ ~serving
    /\ serving' = TRUE
    /\ UNCHANGED <<bexio_client, field_validator, constructed, calls>>
    /\ ToolFrame

\* call_tool(name, arguments) is entered and runs to its first await or to
\* its return: get_bexio_client, then the engine's call or the if/elif chain
CallTool(c, name, arguments) ==
    /\ serving
    /\ calls[c].pc = "idle"
    /\ LET g == get_bexio_client(environ, bexio_client, field_validator, constructed)
           started == [IdleCall EXCEPT !.name = name, !.given = arguments,
                                       !.arguments = arguments, !.client = g.client]
       IN /\ bexio_client' = g.bexio_client
          /\ field_validator' = g.field_validator
          /\ constructed' = g.constructed
          /\ calls' = [calls EXCEPT ![c] =
                IF g.raised THEN Fails(started, g.exc, 0, g.field_validator)
                ELSE IF name \in CompletionNames
                THEN [started EXCEPT !.pc = "completing"]
                ELSE Dispatch(started, g.field_validator)]
    /\ UNCHANGED serving
    /\ ToolFrame

\* auto_complete_fields returns or raises; call_tool goes on to the if/elif
\* chain with the completed arguments
CompletionEnds(c, taxes) ==
    /\ calls[c].pc = "completing"
    /\ LET r == auto_complete_fields(calls[c].name, calls[c].arguments, taxes)
       IN calls' = [calls EXCEPT ![c] =
             IF r.raised THEN Fails(calls[c], r.exc, 0, field_validator)
             ELSE Dispatch([calls[c] EXCEPT !.arguments = r.value, !.completed = TRUE],
                           field_validator)]
    /\ UNCHANGED <<serving, bexio_client, field_validator, constructed>>
    /\ ToolFrame

\* the awaited BexioClient method returns or raises
MethodEnds(c, outcome) ==
    /\ calls[c].pc = "method"
    /\ calls' = [calls EXCEPT ![c] =
          CASE outcome.kind = "ok" ->
                 [calls[c] EXCEPT !.pc = "done",
                                  !.out = TextResult(JsonDumps(outcome.value, 0))]
            [] outcome.kind = "http" ->
                 Fails(calls[c], ApiErrorExc(outcome.status, outcome.message),
                       outcome.status, field_validator)
            [] OTHER ->
                 Fails(calls[c], RequestFailedExc(outcome.text), 0, field_validator)]
    /\ UNCHANGED <<serving, bexio_client, field_validator, constructed>>
    /\ ToolFrame

\* the host has the call's result
CallReturns(c) ==
    /\ calls[c].pc = "done"
    /\ calls' = [calls EXCEPT ![c] = IdleCall]
    /\ UNCHANGED <<serving, bexio_client, field_validator, constructed>>
    /\ ToolFrame

ToolNext ==
    \/ MainStarts
    \/ \E c \in Calls, input \in ToolInputs : CallTool(c, input.name, input.arguments)
    \/ \E c \in Calls, taxes \in ToolTaxOutcomes : CompletionEnds(c, taxes)
    \/ \E c \in Calls, outcome \in MethodOutcomes : MethodEnds(c, outcome)
    \/ \E c \in Calls : CallReturns(c)

SpecTool == ToolInit /\ [][ToolNext]_vars

-----------------------------------------------------------------------------
\* Claims on the server process (SpecTool)

\* the create and update tools among the tool names called
MutatingNames ==
    {"create_contact", "update_contact", "create_invoice", "update_invoice",
     "create_manual_entry", "create_timesheet", "update_timesheet"}

\* the names listed for completion
ListedNames ==
    {"create_contact", "update_contact", "create_invoice", "update_invoice",
     "create_quote", "update_quote", "create_project", "update_project",
     "create_item"}

Invoked(c) == calls[c].invoked # "none"

Done(c) == calls[c].pc = "done"

Failing(c) == Done(c) /\ calls[c].exc.type # "none"

\* C16: a call gives its host nothing before it ends and ends by returning a
\* text: the JSON text of the method's whole return value, the unknown-tool
\* text, or a text for the exception; no exception leaves call_tool.
C16_AlwaysText ==
    \A c \in Calls :
        /\ ~Done(c) => calls[c].out.kind = "none"
        /\ Done(c) =>
              /\ calls[c].out.kind = "text"
              /\ IF calls[c].exc.type # "none"
                 THEN Contains(calls[c].out.text, calls[c].exc.msg)
                 ELSE IF Invoked(c)
                 THEN \E o \in MethodOutcomes :
                         o.kind = "ok" /\ calls[c].out.text = JsonDumps(o.value, 0)
                 ELSE calls[c].out.text = UnknownToolText(calls[c].name)

C16_Witness ==
    \E c \in Calls :
        /\ Done(c)
        /\ calls[c].exc.type = "KeyError"
        /\ calls[c].out.kind = "text"

\* C17: the enhancer is invoked only for a failure that is an HTTP 422
\* response.
C17_EnhancerOnly422 ==
    \A c \in Calls : calls[c].enhanced => calls[c].status = 422

\* C18: the text returned for a failed call contains str(e) of the failure
\* verbatim, and for a failure that is not an HTTP 422 it is that text alone
\* or behind "Error: ".
C18_OriginalTextKept ==
    \A c \in Calls :
        Failing(c) =>
            /\ calls[c].out.kind = "text"
            /\ Contains(calls[c].out.text, calls[c].exc.msg)
            /\ calls[c].status # 422 =>
                  calls[c].out.text \in
                      {calls[c].exc.msg, <<"E", "r", "r", "o", "r", ":", " ">> \o calls[c].exc.msg}

C18_Witness ==
    \E c \in Calls :
        /\ Failing(c)
        /\ calls[c].status = 500
        /\ calls[c].out.text = <<"E", "r", "r", "o", "r", ":", " ", "B", "e", "x", "i",
                                 "o", " ", "A", "P", "I", " ", "e", "r", "r", "o", "r",
                                 " ", "-", " ", "H", "T", "T", "P", " ", "5", "0", "0">>

\* C19: once set, server.bexio_client and server.field_validator never
\* change; at most one client and one validator are ever constructed; and
\* every call holds the one client.
C19_SingletonClient ==
    [][/\ bexio_client # 0 => bexio_client' = bexio_client
       /\ field_validator # 0 => field_validator' = field_validator
       /\ constructed'.client <= 1
       /\ constructed'.validator <= 1
       /\ \A c \in Calls : calls'[c].client \in {0, bexio_client'}]_vars

C19_Witness ==
    /\ bexio_client = 1
    /\ constructed = [client |-> 1, validator |-> 1]
    /\ \A c \in Calls : calls[c].pc \in {"completing", "method"} /\ calls[c].client = 1

TokenBlank == environ \in {TokenAbsent, [BEXIO_ACCESS_TOKEN |-> <<" ", " ">>]}

\* C20 as stated: with no or a blank access token the process never serves
\* tool calls.
C20_Original == TokenBlank => ~serving

\* C20: with no or a blank access token no client is ever constructed and no
\* resource method is invoked; every tool call ends at once with the
\* missing-token error text.
C20_TokenCheckedPerCall ==
    TokenBlank =>
        /\ bexio_client = 0
        /\ constructed.client = 0
        /\ \A c \in Calls :
              /\ calls[c].pc \in {"idle", "done"}
              /\ ~Invoked(c)
              /\ Done(c) =>
                    calls[c].out =
                        TextResult(<<"E", "r", "r", "o", "r", ":", " ", "F", "a", "i",
                                     "l", "e", "d", " ", "t", "o", " ", "c", "r", "e",
                                     "a", "t", "e", " ", "B", "e", "x", "i", "o", " ",
                                     "c", "l", "i", "e", "n", "t", ":", " ">>
                                       \o MissingTokenText)

C20_Witness ==
    /\ serving
    /\ environ = [BEXIO_ACCESS_TOKEN |-> <<" ", " ">>]
    /\ \E c \in Calls : Done(c) /\ calls[c].exc = FailedToCreate(MissingTokenText)

-----------------------------------------------------------------------------
\* Further claims on the search cascade (Spec)

\* C21: a request that times out is the last request of its call, and the
\* call fails with the timeout error.
C21_TimeoutFatal ==
    \A j \in 1..Len(responses) :
        responses[j].kind = "timeout" =>
            /\ Len(requests) = j
            /\ pc = "done"
            /\ result = Raised(RequestFailed("timeout"))

-----------------------------------------------------------------------------
\* Further claims on the completion engine (SpecComplete)

PositionFields == {KeyType, KeyText, KeyAmount, KeyUnitPrice, KeyTaxId}

\* every required field of the tool's payload is present: the caller's
\* fields, the fields with a default, and in each position all five fields
AllRequiredPresent(name, payload) ==
    /\ \A j \in 1..Len(RequiredInput(name)) : DictHas(payload, RequiredInput(name)[j])
    /\ \A j \in 1..Len(StaticDefaults(name)) : DictHas(payload, StaticDefaults(name)[j].k)
    /\ HasPositions(payload) =>
          \A j \in 1..Len(DictGet(payload, KeyPositions).d) :
              \A f \in PositionFields : DictHas(DictGet(payload, KeyPositions).d[j], f)

\* C22: the engine returns a payload that has all its required fields as it
\* got it, whatever the tax read gives, so that applying the engine to the
\* result returns it unchanged again.
C22_Idempotent ==
    (e_pc = "done" /\ AllRequiredPresent(e_name, e_payload)) =>
        /\ e_out = Returned(e_payload)
        /\ \A taxes \in TaxOutcomes :
              complete(e_name, e_out.value, taxes).value = e_payload

C22_Witness ==
    /\ e_pc = "done"
    /\ e_name = "create_invoice"
    /\ e_payload = PyDict(<<Pair(KeyContactId, PyInt(7)), Pair(KeyUserId, PyInt(0)),
                            Pair(KeyPositions, PyList(<<PosFull>>))>>)
    /\ e_out = Returned(e_payload)

-----------------------------------------------------------------------------
\* Further claims on the client-side filter (SpecFilter)

\* the dotted path does not lead to a stored value: a key of the path is
\* missing, or a step of the path meets a value that is not a mapping
RECURSIVE Unresolved(_, _)
Unresolved(value, parts) ==
    IF parts = <<>> THEN FALSE
    ELSE \/ value.t # "dict"
         \/ ~DictHas(value, Head(parts))
         \/ Unresolved(DictGet(value, Head(parts)), Tail(parts))

FilterFields == {FieldCity, FieldZip, FieldAddressCity}

\* C23: when the dotted path of a condition's field does not resolve in the
\* record, the field's value is None and filtering completes: the condition
\* `field = None` keeps the record and `field = "Zurich"` drops it; a path
\* that resolves through a nested mapping gives the nested value.
C23_UnresolvedIsNone ==
    FilterDone =>
        /\ \A f \in FilterFields :
              Unresolved(f_items[1], SplitDot(f.s)) =>
                  /\ ResolveField(f_items[1], f) = None
                  /\ f_criteria = <<Cond(f, None, OpEq)>> => Kept
                  /\ f_criteria = <<Cond(f, StrZurich, OpEq)>> => ~Kept
        /\ (f_items = <<RecNested>> /\ f_criteria = <<Cond(FieldAddressCity, StrZurich, OpEq)>>)
              => Kept

C23_Witness ==
    /\ FilterDone
    /\ f_items = <<RecAddressStr>>
    /\ f_criteria = <<Cond(FieldAddressCity, None, OpEq)>>
    /\ Kept

\* C27: a record in which the field's path does not resolve is dropped by
\* every `=` or `like` condition whose expected value is a string.
C27_AbsentNeverMatches ==
    (FilterDone /\ Len(f_criteria) = 1) =>
        LET cond == f_criteria[1]
        IN (/\ cond.field \in FilterFields
            /\ Unresolved(f_items[1], SplitDot(cond.field.s))
            /\ EffectiveOp(cond) \in {StrEq, StrLike}
            /\ cond.value.t = "str") => ~Kept

-----------------------------------------------------------------------------
\* Further claims on create_contact and update_contact (SpecUpdate)

ContactCall == method \in {"create_contact", "update_contact"}

\* the payloads the call has sent so far
SentPayloads == {requests[j].json : j \in {i \in 1..Len(requests) : requests[i].verb # "GET"}}

\* C25: the caller's mapping is as given throughout the call; a payload given
\* with email and without mail is sent with mail set to the email value and
\* without email, and a payload given with mail is sent with that mail.
C25_CallerMappingUntouched ==
    ContactCall =>
        /\ call_args.contact_data = call_args.given
        /\ \A sent \in SentPayloads :
              /\ (DictHas(call_args.given, KeyEmail) /\ ~DictHas(call_args.given, KeyMail)) =>
                    /\ DictGet(sent, KeyMail) = DictGet(call_args.given, KeyEmail)
                    /\ ~DictHas(sent, KeyEmail)
              /\ DictHas(call_args.given, KeyMail) =>
                    /\ DictGet(sent, KeyMail) = DictGet(call_args.given, KeyMail)
                    /\ DictHas(sent, KeyEmail) <=> DictHas(call_args.given, KeyEmail)

C25_Witness ==
    /\ method = "create_contact"
    /\ pc = "done"
    /\ DictHas(call_args.contact_data, KeyEmail)
    /\ ~DictHas(call_args.contact_data, KeyMail)
    /\ DictGet(requests[1].json, KeyMail) = StrNewMail
    /\ ~DictHas(requests[1].json, KeyEmail)

\* C26: one update_contact call sends at most one PUT, and when the PUT of
\* the merged payload is rejected the call ends with that rejection.
C26_AtMostOnePut ==
    method = "update_contact" =>
        /\ Cardinality(PutRequests) <= 1
        /\ (FetchSucceeded /\ Len(responses) >= 2 /\ _request(responses[2]).raised) =>
              /\ pc = "done"
              /\ result = Raised(_request(responses[2]).exc)

-----------------------------------------------------------------------------
\* BexioClient.create_invoice (SpecInvoice).

KeyTitle == <<"t", "i", "t", "l", "e">>

StrSeven == PyStr(<<"7">>)

\* raise ValueError("Invoice requires contact_id")
MissingContactId ==
    [type |-> "ValueError", text |-> "Invoice requires contact_id", status |-> 0,
     cause |-> "validation"]

\* raise ValueError("Invoice requires at least one position. ...")
MissingPositions ==
    [type |-> "ValueError", text |-> "Invoice requires at least one position",
     status |-> 0, cause |-> "validation"]

\* slip: any non-empty value passes
PositionsRejected_truthy_passes(positions) == ~Truthy(positions)

\* not positions or not isinstance(positions, list)
PositionsRejected(positions) == ~Truthy(positions) \/ positions.t # "list"

\* the values contact_id is given with: a key left out is the empty sequence
ContactIdValues ==
    {None, PyInt(0), PyInt(7), PyStr(<<>>), StrSeven, PyBool(FALSE)}

PositionsValues ==
    {None, PyList(<<>>), PyList(<<PosFull>>), PyList(<<PosTextOnly, PosFull>>),
     StrConsulting, PyStr(<<>>), PosFull, PyDict(<<>>), PyInt(1)}

EntriesOf(key, values) == {<<>>} \cup {<<Pair(key, v)>> : v \in values}

InvoicePayloads ==
    {PyDict(t \o c \o p) :
        t \in EntriesOf(KeyTitle, {StrNew}),
        c \in EntriesOf(KeyContactId, ContactIdValues),
        p \in EntriesOf(KeyPositions, PositionsValues)}

\* create_invoice is called: it raises on an incomplete payload, else posts it
CreateInvoiceCall(invoice_data) ==
    /\ pc = "idle"
    /\ method' = "create_invoice"
    /\ call_args' = [invoice_data |-> invoice_data]
    /\ responses' = <<>>
    /\ IF ~Truthy(DictGet(invoice_data, KeyContactId))
       THEN /\ requests' = <<>>
            /\ result' = Raised(MissingContactId)
            /\ pc' = "done"
       ELSE IF PositionsRejected(DictGet(invoice_data, KeyPositions))
       THEN /\ requests' = <<>>
            /\ result' = Raised(MissingPositions)
            /\ pc' = "done"
       ELSE /\ requests' = <<Post("/2.0/kb_invoice", invoice_data)>>
            /\ result' = Pending
            /\ pc' = "i_post"
    /\ UpdateFrame

\* the POST completes: create_invoice returns or raises what _request did
CreateInvoiceCompletes(outcome) ==
    /\ pc = "i_post"
    /\ responses' = Append(responses, outcome)
    /\ LET r == _request(outcome)
       IN result' = IF r.raised THEN Raised(r.exc) ELSE Returned(r.value)
    /\ pc' = "done"
    /\ UNCHANGED <<method, call_args, requests>>
    /\ UpdateFrame

\* the caller has the outcome of create_invoice
CreateInvoiceEnds ==
    /\ pc = "done"
    /\ method = "create_invoice"
    /\ pc' = "idle"
    /\ method' = "none"
    /\ call_args' = NoArgs
    /\ requests' = <<>>
    /\ responses' = <<>>
    /\ result' = Pending
    /\ UpdateFrame

InvoiceNext ==
    \/ \E invoice_data \in InvoicePayloads : CreateInvoiceCall(invoice_data)
    \/ \E outcome \in {OkResponse(PyDict(<<Pair(KeyId, PyInt(1))>>))} \cup ErrorOutcomes :
          CreateInvoiceCompletes(outcome)
    \/ CreateInvoiceEnds

SpecInvoice == Init /\ [][InvoiceNext]_vars

\* the payloads the claim says are refused: contact_id absent or falsy, or
\* positions absent, empty or not a list
Refused(data) ==
    \/ ~DictHas(data, KeyContactId)
    \/ DictGet(data, KeyContactId) \in {None, PyInt(0), PyStr(<<>>), PyBool(FALSE)}
    \/ ~DictHas(data, KeyPositions)
    \/ DictGet(data, KeyPositions).t # "list"
    \/ DictGet(data, KeyPositions).d = <<>>

\* C29: create_invoice sends no request and raises an error for a refused
\* payload, and sends exactly one POST with the payload as given otherwise.
C29_InvoiceValidation ==
    method = "create_invoice" =>
        IF Refused(call_args.invoice_data)
        THEN /\ requests = <<>>
             /\ pc = "done"
             /\ result.status = "raised"
             /\ result.exc.cause = "validation"
        ELSE /\ requests = <<Post("/2.0/kb_invoice", call_args.invoice_data)>>
             /\ result.status = "raised" => result.exc.cause # "validation"

C29_Witness ==
    /\ method = "create_invoice"
    /\ pc = "done"
    /\ DictGet(call_args.invoice_data, KeyContactId) = PyInt(7)
    /\ DictGet(call_args.invoice_data, KeyPositions) = StrConsulting
    /\ requests = <<>>
    /\ result = Raised(MissingPositions)

-----------------------------------------------------------------------------
\* Further claims on the server process (SpecTool)

\* C28: a call whose arguments went through the completion engine never ends
\* with the answer "Unknown tool".
C28_CompletedIsDispatched ==
    \A c \in Calls :
        (calls[c].completed /\ calls[c].pc = "done") =>
            calls[c].out # TextResult(UnknownToolText(calls[c].name))

-----------------------------------------------------------------------------
\* BexioClient._request in detail: the message of the ValueError (SpecRequest).

KeyMessage == <<"m", "e", "s", "s", "a", "g", "e">>

KeyErrorKey == <<"e", "r", "r", "o", "r">>

KeyDetail == <<"d", "e", "t", "a", "i", "l">>

KeyErrors == <<"e", "r", "r", "o", "r", "s">>

StrInvalid == PyStr(<<"i", "n", "v", "a", "l", "i", "d">>)

StrDenied == PyStr(<<"d", "e", "n", "i", "e", "d">>)

StrRequired == PyStr(<<"r", "e", "q", "u", "i", "r", "e", "d">>)

\* a response with an error status: e.response.json() gives `json` when
\* `parsable`, and e.response.text is `text`
ErrorResponse(code, parsable, json, text) ==
    [kind |-> "http_error", status |-> code, parsable |-> parsable, json |-> json,
     text |-> text]

\* no usable response: an exception of class `class` whose str() is `text`,
\* raised by client.request or by response.json() on a 2xx body
Failure(kind, class, text) == [kind |-> kind, class |-> class, text |-> text]

\* x or y
Or(x, y) == IF Truthy(x) THEN x ELSE y

\* error_detail: "HTTP <code>", then ": <message>" and " | errors: <errors>"
\* from a body that is a JSON object, else ": <raw text>"
error_detail(response) ==
    LET head == <<"H", "T", "T", "P", " ">> \o IntToStr(response.status)
        error_data == response.json
    IN IF response.parsable /\ error_data.t = "dict"
       THEN LET message == Or(Or(DictGet(error_data, KeyMessage),
                                 DictGet(error_data, KeyErrorKey)),
                              DictGet(error_data, KeyDetail))
                field_errors == DictGet(error_data, KeyErrors)
            IN head
               \o (IF Truthy(message) THEN <<":", " ">> \o Str(message) ELSE <<>>)
               \o (IF Truthy(field_errors)
                   THEN <<" ", "|", " ", "e", "r", "r", "o", "r", "s", ":", " ">> \o Str(field_errors) ELSE <<>>)
       ELSE head \o <<":", " ">> \o response.text

\* slip: the exception of the HTTP client leaves _request as it is
OtherFailure_reraised(e) == PyExc(e.class, e.text)

\* except Exception as e: raise ValueError(f"Request failed: {str(e)}")
OtherFailure(e) == RequestFailedExc(e.text)

\* what _request does with a response: return its JSON or raise
RequestOutcome(response) ==
    CASE response.kind = "ok" -> Returned(response.data)
      [] response.kind = "http_error" ->
           Raised(PyExc("ValueError", <<"B", "e", "x", "i", "o", " ", "A", "P", "I",
                                        " ", "e", "r", "r", "o", "r", " ", "-", " ">> \o error_detail(response)))
      [] OTHER -> Raised(OtherFailure(response))

ErrorBodies ==
    {PyDict(m \o e \o d \o f) :
        m \in EntriesOf(KeyMessage, {StrInvalid, PyStr(<<>>)}),
        e \in EntriesOf(KeyErrorKey, {StrDenied}),
        d \in EntriesOf(KeyDetail, {StrOld}),
        f \in EntriesOf(KeyErrors,
                        {StrRequired, PyDict(<<Pair(KeyName1, StrRequired)>>),
                         PyDict(<<>>)})}

Responses ==
    {OkResponse(PyDict(<<Pair(KeyId, PyInt(7))>>)), OkResponse(PyList(<<>>))}
    \cup {ErrorResponse(c, TRUE, b, <<>>) : c \in {404, 422}, b \in ErrorBodies}
    \cup {ErrorResponse(c, TRUE, PyList(<<>>), <<"[", "]">>) : c \in {404, 422}}
    \cup {ErrorResponse(c, FALSE, None, t) : c \in {404, 500}, t \in {<<"<", "h", "t",
                                                                        "m", "l", ">">>, <<>>}}
    \cup {Failure("network", "ConnectError", <<"r", "e", "f", "u", "s", "e", "d">>),
          Failure("timeout", "ReadTimeout", <<>>),
          Failure("bad_json", "JSONDecodeError", <<"E", "x", "p", "e", "c", "t", "i",
                                                   "n", "g", " ", "v", "a", "l", "u",
                                                   "e">>)}

SentRequests ==
    {Get(ContactEndpoint(7)), Get(ContactEndpoint(8)),
     Put(ContactEndpoint(7), ContactNew)}

\* _request is entered: the request goes out
RequestSent(req) ==
    /\ pc = "idle"
    /\ method' = "_request"
    /\ requests' = <<req>>
    /\ responses' = <<>>
    /\ result' = Pending
    /\ pc' = "r_wait"
    /\ UNCHANGED call_args
    /\ UpdateFrame

\* the exchange ends: _request returns or raises
RequestCompletes(response) ==
    /\ pc = "r_wait"
    /\ responses' = <<response>>
    /\ result' = RequestOutcome(response)
    /\ pc' = "done"
    /\ UNCHANGED <<method, call_args, requests>>
    /\ UpdateFrame

\* the caller has the outcome
RequestEnds ==
    /\ pc = "done"
    /\ method = "_request"
    /\ pc' = "idle"
    /\ method' = "none"
    /\ requests' = <<>>
    /\ responses' = <<>>
    /\ result' = Pending
    /\ UNCHANGED call_args
    /\ UpdateFrame

RequestNext ==
    \/ \E req \in SentRequests : RequestSent(req)
    \/ \E response \in Responses : RequestCompletes(response)
    \/ RequestEnds

SpecRequest == Init /\ [][RequestNext]_vars

\* the remote message of an error body: message, else error, else detail
RemoteMessage(body) ==
    IF DictGet(body, KeyMessage) \notin {None, PyStr(<<>>)} THEN DictGet(body, KeyMessage)
    ELSE IF DictHas(body, KeyErrorKey) THEN DictGet(body, KeyErrorKey)
    ELSE DictGet(body, KeyDetail)

\* C30: a request that does not return its JSON raises ValueError, which
\* `except ValueError` catches: for an error status the message has
\* "HTTP <code>", and the remote message and the field errors of a parsable
\* body that has them; for every other failure it starts "Request failed".
C30_AlwaysValueError ==
    (method = "_request" /\ pc = "done") =>
        LET response == responses[1]
            msg == result.exc.msg
        IN IF response.kind = "ok" THEN result = Returned(response.data)
           ELSE /\ result.status = "raised"
                /\ result.exc.type = "ValueError"
                /\ ExceptValueError(result.exc)
                /\ IF response.kind = "http_error"
                   THEN /\ Contains(msg, <<"H", "T", "T", "P", " ">> \o IntToStr(response.status))
                        /\ (response.parsable /\ response.json.t = "dict") =>
                              /\ RemoteMessage(response.json) # None =>
                                    Contains(msg, <<":", " ">>
                                                  \o RemoteMessage(response.json).s)
                              /\ DictGet(response.json, KeyErrors).t = "str" =>
                                    Contains(msg, <<" ", "|", " ", "e", "r", "r", "o",
                                                    "r", "s", ":", " ">>
                                                  \o DictGet(response.json, KeyErrors).s)
                              /\ DictGet(response.json, KeyErrors).d # <<>> =>
                                    Contains(msg, <<" ", "|", " ", "e", "r", "r", "o",
                                                    "r", "s", ":", " ", "{", "'", "n",
                                                    "a", "m", "e", "_", "1", "'", ":",
                                                    " ", "'", "r", "e", "q", "u", "i",
                                                    "r", "e", "d", "'", "}">>)
                   ELSE SubSeq(msg, 1, 14) = <<"R", "e", "q", "u", "e", "s", "t", " ",
                                               "f", "a", "i", "l", "e", "d">>

C30_Witness ==
    /\ method = "_request"
    /\ pc = "done"
    /\ responses[1].kind = "http_error"
    /\ responses[1].status = 422
    /\ result.exc.msg = <<"B", "e", "x", "i", "o", " ", "A", "P", "I", " ", "e", "r",
                          "r", "o", "r", " ", "-", " ", "H", "T", "T", "P", " ", "4",
                          "2", "2", ":", " ", "d", "e", "n", "i", "e", "d", " ", "|",
                          " ", "e", "r", "r", "o", "r", "s", ":", " ", "{", "'", "n",
                          "a", "m", "e", "_", "1", "'", ":", " ", "'", "r", "e", "q",
                          "u", "i", "r", "e", "d", "'", "}">>

-----------------------------------------------------------------------------
\* Two search calls in flight on one BexioClient (SpecConcurrent). A search
\* method keeps criteria, fallback_limit and what it received in locals of its
\* own coroutine; of the instance it reads api_url and the HTTP client only.
\* Here call_args[c] is what the caller of call c passed and responses[c] are
\* the outcomes the transport delivered to call c, in order.

\* no call: nothing was passed
NoSearch == [method |-> "none", criteria |-> <<>>, fallback_limit |-> <<>>]

\* the coroutine of a search call that has not been entered
IdleSearch ==
    [pc |-> "idle", method |-> "none", criteria |-> <<>>, fallback_limit |-> <<>>,
     requests |-> <<>>, responses |-> <<>>, result |-> Pending]

\* a search method is entered and issues its first request
Entered(m, conds, limit) ==
    IF m \in ThreeTierMethods
    THEN [pc |-> "await1", method |-> m, criteria |-> conds, fallback_limit |-> limit,
          requests |-> <<Post(SearchEndpoint(m), Tier1Body(conds))>>,
          responses |-> <<>>, result |-> Pending]
    ELSE [pc |-> "await", method |-> m, criteria |-> conds, fallback_limit |-> <<>>,
          requests |-> <<Post(SearchEndpoint(m), SingleSearchBody(m, conds))>>,
          responses |-> <<>>, result |-> Pending]

\* the coroutine resumes with the outcome of the request it awaits
Resumed(frame, outcome) ==
    LET r == _request(outcome)
        got == [frame EXCEPT !.responses = Append(frame.responses, outcome)]
        ended == IF r.raised THEN Raised(r.exc) ELSE Returned(r.value)
    IN CASE frame.pc = "await" -> [got EXCEPT !.pc = "done", !.result = ended]
         [] frame.pc = "await1" ->
              IF AttemptReturns(r) \/ ~ExceptValueError(r.exc)
              THEN [got EXCEPT !.pc = "done", !.result = ended]
              ELSE [got EXCEPT !.pc = "await2",
                               !.requests = Append(frame.requests,
                                   Post(SearchEndpoint(frame.method),
                                        Tier2Body(frame.criteria)))]
         [] frame.pc = "await2" ->
              IF AttemptReturns(r) \/ ~ExceptValueError(r.exc)
              THEN [got EXCEPT !.pc = "done", !.result = ended]
              ELSE [got EXCEPT !.pc = "await3",
                               !.requests = Append(frame.requests,
                                   ListRequest(frame.method, frame.fallback_limit))]
         [] frame.pc = "await3" ->
              [got EXCEPT !.pc = "done",
                          !.result =
                              IF r.raised
                              THEN Raised(PropagatedError(
                                       <<_request(frame.responses[1]).exc,
                                         _request(frame.responses[2]).exc, r.exc>>))
                              ELSE Returned(_filter_by_criteria(r.value, frame.criteria))]
         [] OTHER -> frame

\* slip: the locals are kept on the instance, where the first call put them
Locals_on_instance(cs, c) == cs[1]

\* the locals a call's coroutine resumes with: its own
Locals(cs, c) == cs[c]

ConcurrentMethods == {"search_invoices", "search_timesheets", "search_contacts"}

ConcurrentCriteria ==
    {<<Cond(FieldCity, StrZurich, OpLike)>>, <<Cond(FieldZip, StrFive, OpEq)>>}

ConcurrentOutcomes ==
    {OkResponse(<<RecZurichshire, RecZURICH>>), OkResponse(<<>>), HttpError(422),
     Fault("timeout")}

ConcurrentInit ==
    /\ pc = "idle"
    /\ method = "none"
    /\ criteria = <<>>
    /\ fallback_limit = <<>>
    /\ requests = <<>>
    /\ responses = [c \in Calls |-> <<>>]
    /\ result = Pending
    /\ call_args = [c \in Calls |-> NoSearch]
    /\ f_pc = "off"
    /\ f_items = <<>>
    /\ f_criteria = <<>>
    /\ f_result = <<>>
    /\ EngineOff
    /\ environ = <<>>
    /\ serving = FALSE
    /\ bexio_client = 1
    /\ field_validator = 0
    /\ constructed = [client |-> 1, validator |-> 0]
    /\ calls = [c \in Calls |-> IdleSearch]

ConcurrentFrame ==
    UNCHANGED <<pc, method, criteria, fallback_limit, requests, result, f_pc, f_items,
                f_criteria, f_result, engine_vars, environ, serving, bexio_client,
                field_validator, constructed>>

\* call c enters a search method
SearchEnters(c, m, conds, limit) ==
    /\ calls[c].pc = "idle"
    /\ calls' = [calls EXCEPT ![c] = Entered(m, conds, limit)]
    /\ call_args' = [call_args EXCEPT ![c] =
                        [method |-> m, criteria |-> conds, fallback_limit |-> limit]]
    /\ responses' = [responses EXCEPT ![c] = <<>>]
    /\ ConcurrentFrame

\* the request call c awaits completes and its coroutine runs to the next
\* await or to its end
SearchResumes(c, outcome) ==
    /\ calls[c].pc \in {"await", "await1", "await2", "await3"}
    /\ calls' = [calls EXCEPT ![c] = Resumed(Locals(calls, c), outcome)]
    /\ responses' = [responses EXCEPT ![c] = Append(responses[c], outcome)]
    /\ UNCHANGED call_args
    /\ ConcurrentFrame

\* the caller of call c has the outcome
SearchReturns(c) ==
    /\ calls[c].pc = "done"
    /\ calls' = [calls EXCEPT ![c] = IdleSearch]
    /\ call_args' = [call_args EXCEPT ![c] = NoSearch]
    /\ responses' = [responses EXCEPT ![c] = <<>>]
    /\ ConcurrentFrame

ConcurrentNext ==
    \/ \E c \in Calls, m \in ConcurrentMethods, conds \in ConcurrentCriteria :
          \E limit \in (IF m \in ThreeTierMethods THEN FallbackLimitArgs ELSE {<<>>}) :
              SearchEnters(c, m, conds, limit)
    \/ \E c \in Calls, outcome \in ConcurrentOutcomes : SearchResumes(c, outcome)
    \/ \E c \in Calls : SearchReturns(c)

SpecConcurrent == ConcurrentInit /\ [][ConcurrentNext]_vars

\* the call as it stands when it runs with no other call on the client and
\* receives the given responses
RECURSIVE Alone(_, _)
Alone(frame, resps) ==
    IF resps = <<>> THEN frame ELSE Alone(Resumed(frame, Head(resps)), Tail(resps))

\* C24: whatever the other call does, the tier a search call is at, the
\* requests it has issued and what it returned or raised are those of the
\* same call run alone on its own conditions and its own responses.
C24_CallsIndependent ==
    \A c \in Calls :
        IF call_args[c] = NoSearch THEN calls[c] = IdleSearch
        ELSE calls[c] = Alone(Entered(call_args[c].method, call_args[c].criteria,
                                      call_args[c].fallback_limit),
                              responses[c])

C24_Witness ==
    /\ calls[1].pc = "done"
    /\ Len(calls[1].requests) = 3
    /\ Len(responses[1]) = 3
    /\ call_args[2].method = "search_timesheets"
    /\ calls[1].criteria = <<Cond(FieldCity, StrZurich, OpLike)>>
    /\ calls[1].result = Returned(<<RecZurichshire, RecZURICH>>)
    /\ calls[2].pc = "await2"
    /\ calls[2].criteria = <<Cond(FieldZip, StrFive, OpEq)>>

====
